---- MODULE Spec2Model ----
(***************************************************************************)
(* A model of the circuit simulator core: simulation/simulator.py          *)
(* (CircuitSimulator, Node), simulation/circuit_solver.py (the solve step  *)
(* bound into the simulator) and components/*.py (the component classes).  *)
(*                                                                         *)
(* Numbers.  The program computes in floating point; the model computes    *)
(* in fixed point, with these units:                                       *)
(*   voltage mV, current nA, resistance Ohm, capacitance nF,               *)
(*   inductance mH, charge pC, flux nWb, energy pJ, power uW,              *)
(*   temperature milli-degree C, brightness per mille, and time in ticks   *)
(*   of one time_step (config.SIMULATION_TIMESTEP = 1 ms).  A quotient is  *)
(*   rounded toward zero.                                                  *)
(***************************************************************************)
EXTENDS Integers, Sequences, FiniteSets, TLC

VARIABLES
    components,          \* CircuitSimulator.components: ids in dict insertion order
    connected_to,        \* BaseComponent.connected_to of every constructed component
    state,               \* BaseComponent.state of every constructed component (flattened keys)
    ac_simulation_time,  \* ACVoltageSource.simulation_time of every constructed AC source
    nodes,               \* CircuitSimulator.nodes: Node objects in dict insertion order
    ground_node,         \* CircuitSimulator.ground_node: a node id or "None"
    simulation_time,     \* CircuitSimulator.simulation_time, in ticks
    running,             \* CircuitSimulator.running
    paused,              \* CircuitSimulator.paused
    update_count,        \* CircuitSimulator.update_count
    stats,               \* CircuitSimulator.stats (the fields that are not wall-clock times)
    history,             \* CircuitSimulator.history: id -> key -> list of <<time, value>>
    events,              \* notifications published to the listeners by the last operation
    received,            \* what each listener was called with during the last operation
    result,              \* what the last operation returned
    log                  \* the last operation: its name, what it logged, the arguments logged

vars == <<components, connected_to, state, ac_simulation_time, nodes, ground_node,
          simulation_time, running, paused, update_count, stats, history, events, received,
          result, log>>

-----------------------------------------------------------------------------
(* Bounds of the model.                                                    *)

\* effective ticks explored per behaviour (update_count is unbounded in the code)
MaxUpdates == 2
\* connection-list entries, summed over all components, explored by the wiring specifications
MaxLinks == 6

-----------------------------------------------------------------------------
(* The component objects: the circuits of examples/basic_circuits.py, two  *)
(* more circuits (an inductor; an AC source whose period is four ticks)    *)
(* and the objects the wiring specifications connect.                      *)

\* a bench that puts an LED across each of three DC sources and a diode across a fourth:
\* the voltage of its sources
JunctionVolts == <<1850, 2001, 5000, 650>>

JunctionSources == {"jn_V1", "jn_V2", "jn_V3", "jn_V4"}

JunctionLEDs == {"jn_L1", "jn_L2", "jn_L3"}

JunctionDiodes == {"jn_D4"}

ClassName(c) ==
    CASE c \in {"dv_V", "rc_V", "di_V", "le_V", "bj_V", "sw_V", "rl_V", "w_V", "lz_V"}
              \cup JunctionSources \cup {"tr_VB", "tr_VC"} -> "DCVoltageSource"
      [] c \in {"os_V", "ac_V", "w_A"} -> "ACVoltageSource"
      [] c = "w_I" -> "DCCurrentSource"
      [] c \in {"dv_R1", "dv_R2", "rc_R", "di_R", "le_R", "bj_RC", "bj_RB", "os_R",
                "sw_R", "rl_R", "ac_R", "w_R"} -> "Resistor"
      [] c \in {"rc_C", "os_C"} -> "Capacitor"
      [] c = "rl_L" -> "Inductor"
      [] c \in {"di_D"} \cup JunctionDiodes -> "Diode"
      [] c \in {"le_D", "sw_D", "lz_D"} \cup JunctionLEDs -> "LED"
      [] c \in {"bj_Q", "tr_Q", "tr_QS"} -> "BJT"
      [] c = "sw_S" -> "Switch"
      [] c \in {"dv_G", "rc_G", "di_G", "le_G", "bj_G", "os_G", "sw_G", "rl_G", "ac_G",
                "w_G"} -> "Ground"

\* The properties dict each object is constructed with.
Properties(c) ==
    CASE c = "dv_V" -> [voltage |-> 10000]
      [] c \in {"rc_V", "di_V", "le_V", "sw_V", "rl_V", "w_V", "lz_V"} -> [voltage |-> 5000]
      [] c = "bj_V" -> [voltage |-> 9000]
      [] c = "tr_VB" -> [voltage |-> 1000]
      [] c = "tr_VC" -> [voltage |-> 5000]
      [] c \in JunctionSources ->
            [voltage |-> JunctionVolts[CHOOSE i \in DOMAIN JunctionVolts :
                                           c = "jn_V" \o ToString(i)]]
      [] c = "os_V" -> [amplitude |-> 5000, frequency |-> 1000, phase |-> 0]
      [] c \in {"ac_V", "w_A"} -> [amplitude |-> 5000, frequency |-> 250, phase |-> 0]
      [] c = "w_I" -> [current |-> 2000000]
      [] c \in {"dv_R1", "dv_R2", "rc_R", "di_R", "bj_RC", "os_R", "sw_R", "rl_R",
                "ac_R", "w_R"} -> [resistance |-> 1000]
      [] c = "le_R" -> [resistance |-> 220]
      [] c = "bj_RB" -> [resistance |-> 10000]
      [] c \in {"rc_C", "os_C"} -> [capacitance |-> 1000]
      [] c = "rl_L" -> [inductance |-> 1000]
      [] c = "di_D" -> [forward_voltage |-> 700]
      [] c = "le_D" -> [forward_voltage |-> 2000, color |-> "red"]
      [] c = "sw_D" -> [forward_voltage |-> 2000, color |-> "green"]
      [] c = "lz_D" -> [forward_voltage |-> 2000, color |-> "red", max_current |-> 0]
      [] c \in {"bj_Q", "tr_Q", "tr_QS"} -> [type |-> "npn", gain |-> 100]
      [] c = "sw_S" -> [state |-> FALSE]
      [] OTHER -> [none |-> 0]

\* BaseComponent.get_property
get_property(c, name, default) ==
    IF name \in DOMAIN Properties(c) THEN Properties(c)[name] ELSE default

\* _init_connections of each class: the terminal names, in dict order.
connections(c) ==
    CASE ClassName(c) \in {"DCVoltageSource", "ACVoltageSource", "DCCurrentSource"}
              -> <<"pos", "neg">>
      [] ClassName(c) \in {"Resistor", "Capacitor", "Inductor", "Switch"} -> <<"p1", "p2">>
      [] ClassName(c) \in {"Diode", "LED"} -> <<"anode", "cathode">>
      [] ClassName(c) = "BJT" -> <<"collector", "base", "emitter">>
      [] ClassName(c) = "Ground" -> <<"gnd">>

Range(s) == {s[i] : i \in DOMAIN s}

\* BaseComponent.connection_points has the keys of connections
connection_points(c) == Range(connections(c))

\* `x in list`
InSeq(x, s) == \E i \in DOMAIN s : s[i] = x

\* list.remove(x): drops the first occurrence
RemoveFirst(s, x) ==
    LET i == CHOOSE j \in DOMAIN s : s[j] = x /\ \A k \in 1..(j - 1) : s[k] # x
    IN  SubSeq(s, 1, i - 1) \o SubSeq(s, i + 1, Len(s))

-----------------------------------------------------------------------------
(* connected_to of one component: a dict {connection_name: [(id, name)]},  *)
(* modelled as the sequence of its items in insertion order.               *)

HasKey(ct, name) == \E i \in DOMAIN ct : ct[i].name = name

KeyIndex(ct, name) == CHOOSE i \in DOMAIN ct : ct[i].name = name

Peers(ct, name) == IF HasKey(ct, name) THEN ct[KeyIndex(ct, name)].peers ELSE <<>>

SetPeers(ct, name, ps) == [ct EXCEPT ![KeyIndex(ct, name)].peers = ps]

DelKey(ct, name) ==
    LET i == KeyIndex(ct, name)
    IN  SubSeq(ct, 1, i - 1) \o SubSeq(ct, i + 1, Len(ct))

\* BaseComponent.is_connected
is_connected(ct, name) == HasKey(ct, name) /\ Len(Peers(ct, name)) > 0

\* connect without its `connection_pair in self.connected_to[...]` test
connect_NoDuplicateTest(ct, c, connection_name, other, other_connection) ==
    IF connection_name \notin connection_points(c) \/ other_connection \notin connection_points(other)
    THEN [ok |-> FALSE, ct |-> ct]
    ELSE LET ct1 == IF HasKey(ct, connection_name) THEN ct
                    ELSE Append(ct, [name |-> connection_name, peers |-> <<>>])
         IN  [ok |-> TRUE,
              ct |-> SetPeers(ct1, connection_name,
                              Append(Peers(ct1, connection_name), <<other, other_connection>>))]

\* BaseComponent.connect on component c, whose connected_to is ct
connect(ct, c, connection_name, other, other_connection) ==
    IF connection_name \notin connection_points(c)
    THEN [ok |-> FALSE, ct |-> ct]
    ELSE IF other_connection \notin connection_points(other)
    THEN [ok |-> FALSE, ct |-> ct]
    ELSE LET ct1 == IF HasKey(ct, connection_name) THEN ct
                    ELSE Append(ct, [name |-> connection_name, peers |-> <<>>])
             pair == <<other, other_connection>>
         IN  IF InSeq(pair, Peers(ct1, connection_name))
             THEN [ok |-> FALSE, ct |-> ct1]
             ELSE [ok |-> TRUE,
                   ct |-> SetPeers(ct1, connection_name,
                                   Append(Peers(ct1, connection_name), pair))]

\* disconnect taking its last branch (`del self.connected_to[connection_name]`) when the
\* pair is found
disconnect_AllAtPoint(ct, connection_name, other_component_id, other_connection) ==
    IF ~HasKey(ct, connection_name)
    THEN [ok |-> FALSE, ct |-> ct]
    ELSE IF InSeq(<<other_component_id, other_connection>>, Peers(ct, connection_name))
    THEN [ok |-> TRUE, ct |-> DelKey(ct, connection_name)]
    ELSE [ok |-> FALSE, ct |-> ct]

\* BaseComponent.disconnect with both optional arguments given
disconnect(ct, connection_name, other_component_id, other_connection) ==
    IF ~HasKey(ct, connection_name)
    THEN [ok |-> FALSE, ct |-> ct]
    ELSE LET pair == <<other_component_id, other_connection>>
         IN  IF InSeq(pair, Peers(ct, connection_name))
             THEN LET ps == RemoveFirst(Peers(ct, connection_name), pair)
                  IN  [ok |-> TRUE,
                       ct |-> IF ps = <<>> THEN DelKey(ct, connection_name)
                              ELSE SetPeers(ct, connection_name, ps)]
             ELSE [ok |-> FALSE, ct |-> ct]

\* CircuitSimulator.connect_components_at: what it returns, the connected_to of all
\* components after the call, and the message it logs
connect_components_at(comps, cto, component1_id, connection1, component2_id, connection2) ==
    IF ~InSeq(component1_id, comps) \/ ~InSeq(component2_id, comps)
    THEN [ok |-> FALSE, cto |-> cto, msg |-> "Component not found"]
    ELSE IF connection1 \notin connection_points(component1_id)
            \/ connection2 \notin connection_points(component2_id)
    THEN [ok |-> FALSE, cto |-> cto, msg |-> "Connection not found"]
    ELSE LET r1 == connect(cto[component1_id], component1_id, connection1,
                           component2_id, connection2)
             cto1 == [cto EXCEPT ![component1_id] = r1.ct]
             r2 == connect(cto1[component2_id], component2_id, connection2,
                           component1_id, connection1)
             cto2 == [cto1 EXCEPT ![component2_id] = r2.ct]
         IN  IF ~(r1.ok /\ r2.ok)
             THEN [ok |-> FALSE, cto |-> cto2, msg |-> "Failed to connect components"]
             ELSE [ok |-> TRUE, cto |-> cto2, msg |-> "Connected"]

\* CircuitSimulator.disconnect_components_at on the connection lists (the part of the
\* handler that touches the node map is DisconnectNodes below)
disconnect_components_at(comps, cto, component1_id, connection1, component2_id, connection2) ==
    IF ~InSeq(component1_id, comps) \/ ~InSeq(component2_id, comps)
    THEN [ok |-> FALSE, cto |-> cto, msg |-> "Component not found"]
    ELSE LET r1 == disconnect(cto[component1_id], connection1, component2_id, connection2)
             cto1 == [cto EXCEPT ![component1_id] = r1.ct]
             r2 == disconnect(cto1[component2_id], connection2, component1_id, connection1)
             cto2 == [cto1 EXCEPT ![component2_id] = r2.ct]
         IN  [ok |-> r1.ok /\ r2.ok, cto |-> cto2,
              msg |-> IF r1.ok /\ r2.ok THEN "Disconnected" ELSE "Connection not found"]

-----------------------------------------------------------------------------
(* Positions and the position-keyed node ids.                              *)

\* BaseComponent.position as the callers leave it (the constructor's default, or what
\* create_voltage_divider assigns)
position(c) ==
    CASE c = "dv_V" -> <<5, 5>>
      [] c = "dv_R1" -> <<8, 5>>
      [] c = "dv_R2" -> <<11, 5>>
      [] c = "dv_G" -> <<14, 7>>
      [] OTHER -> <<0, 0>>

\* the offset of _init_connections after _rotate_point at rotation 0: Python's round()
\* takes the halves to the even neighbour (1.5 -> 2, -1.5 -> -2, -0.5 -> 0)
RoundedOffset(c, name) ==
    CASE ClassName(c) \in {"DCVoltageSource", "ACVoltageSource"} ->
            IF name = "pos" THEN <<0, 2>> ELSE <<0, -2>>
      [] ClassName(c) \in {"Resistor", "Inductor"} ->
            IF name = "p1" THEN <<-2, 0>> ELSE <<2, 0>>
      [] ClassName(c) \in {"Capacitor", "Switch"} ->
            IF name = "p1" THEN <<-1, 0>> ELSE <<1, 0>>
      [] ClassName(c) \in {"Diode", "LED"} ->
            IF name = "anode" THEN <<-1, 0>> ELSE <<1, 0>>
      [] ClassName(c) = "BJT" ->
            IF name = "collector" THEN <<0, 2>>
            ELSE IF name = "base" THEN <<-2, 0>> ELSE <<0, -2>>
      [] ClassName(c) = "Ground" -> <<0, 0>>

\* connection_points[name]
PointOf(c, name) ==
    <<position(c)[1] + RoundedOffset(c, name)[1], position(c)[2] + RoundedOffset(c, name)[2]>>

\* CircuitSimulator._get_node_id_at_position
get_node_id_at_position(pos) == "node_" \o ToString(pos[1]) \o "_" \o ToString(pos[2])

HasNode(ns, node_id) == \E i \in DOMAIN ns : ns[i].id = node_id

NodeIndex(ns, node_id) == CHOOSE i \in DOMAIN ns : ns[i].id = node_id

\* Node.remove_component on the node with this id
RemoveMember(ns, node_id, key) ==
    [ns EXCEPT ![NodeIndex(ns, node_id)].members = SelectSeq(@, LAMBDA m : m # key)]

\* `if not node.components: del self.nodes[node_id]`
DeleteIfEmpty(ns, node_id) ==
    LET i == NodeIndex(ns, node_id)
    IN  IF ns[i].members = <<>>
        THEN SubSeq(ns, 1, i - 1) \o SubSeq(ns, i + 1, Len(ns))
        ELSE ns

\* remove_component's loop over connection_points: the component leaves the node found
\* at each of its terminals' positions
RECURSIVE RemoveFromNodes(_, _, _)
RemoveFromNodes(ns, c, names) ==
    IF names = <<>> THEN ns
    ELSE LET node_id == get_node_id_at_position(PointOf(c, Head(names)))
             ns1 == IF HasNode(ns, node_id)
                    THEN DeleteIfEmpty(RemoveMember(ns, node_id, <<c, Head(names)>>), node_id)
                    ELSE ns
         IN  RemoveFromNodes(ns1, c, Tail(names))

\* the node part of disconnect_components_at, run after both disconnect calls
DisconnectNodes(ns, cto, component1_id, connection1, component2_id, connection2) ==
    IF connection1 \in connection_points(component1_id)
       /\ connection2 \in connection_points(component2_id)
       /\ PointOf(component1_id, connection1) = PointOf(component2_id, connection2)
       /\ HasNode(ns, get_node_id_at_position(PointOf(component1_id, connection1)))
    THEN LET node_id == get_node_id_at_position(PointOf(component1_id, connection1))
             ns1 == IF ~is_connected(cto[component1_id], connection1)
                    THEN RemoveMember(ns, node_id, <<component1_id, connection1>>)
                    ELSE ns
             ns2 == IF ~is_connected(cto[component2_id], connection2)
                    THEN RemoveMember(ns1, node_id, <<component2_id, connection2>>)
                    ELSE ns1
         IN  DeleteIfEmpty(ns2, node_id)
    ELSE ns

-----------------------------------------------------------------------------
(* The operations on the circuit.                                          *)

Bool(b) == IF b THEN "True" ELSE "False"

\* every constructed component object
Objects == DOMAIN connected_to

\* the entries of all connection lists
RECURSIVE SumLen(_)
SumLen(ct) == IF ct = <<>> THEN 0 ELSE Len(Head(ct).peers) + SumLen(Tail(ct))

RECURSIVE Links(_, _)
Links(cto, ids) ==
    IF ids = {} THEN 0
    ELSE LET c == CHOOSE x \in ids : TRUE
         IN  SumLen(cto[c]) + Links(cto, ids \ {c})

SimUnchanged == UNCHANGED <<state, ac_simulation_time, ground_node, simulation_time,
                            running, paused, update_count, stats, history>>

\* CircuitSimulator.event_listeners: the listeners of the main window and of the debug
\* console, and between them a listener whose every call raises an Exception
event_listeners == <<"main_window", "raising_listener", "debug_console">>

ListenerRaises(listener) == listener = "raising_listener"

\* the listeners called before this one
CalledBefore(listeners, listener) ==
    {listeners[i] : i \in {j \in DOMAIN listeners : \A k \in 1..j : listeners[k] # listener}}

\* the loop without its try / except: the first exception ends it
_notify_listeners_NoHandler(listeners, event) ==
    [l \in Range(listeners) |->
        IF \E l0 \in CalledBefore(listeners, l) : ListenerRaises(l0) THEN <<>> ELSE <<event>>]

\* CircuitSimulator._notify_listeners: what each listener is called with; an Exception
\* of a listener is caught and logged, and the loop goes on
_notify_listeners(listeners, event) == [l \in Range(listeners) |-> <<event>>]

\* what each listener is called with when the events evs are published one after another
RECURSIVE Delivered(_)
Joined(first, rest) == [l \in DOMAIN first |-> first[l] \o rest[l]]

Delivered(evs) ==
    IF evs = <<>> THEN [l \in Range(event_listeners) |-> <<>>]
    ELSE Joined(_notify_listeners(event_listeners, Head(evs)), Delivered(Tail(evs)))

\* the operation publishes the events evs
Notify(evs) == events' = evs /\ received' = Delivered(evs)

\* what an operation logs: the arguments are in the message when it succeeds
Logged(op, msg, args) == [op |-> op, msg |-> msg, args |-> args]

\* CircuitSimulator.add_component
AddComponent(c) ==
    /\ c \in Objects
    /\ IF InSeq(c, components)
       THEN /\ result' = "False"
            /\ log' = Logged("add_component", "already exists", <<>>)
            /\ UNCHANGED components
       ELSE /\ components' = Append(components, c)
            /\ result' = "True"
            /\ log' = Logged("add_component", "Added component", <<c>>)
    /\ Notify(<<>>)
    /\ UNCHANGED <<connected_to, nodes>>
    /\ SimUnchanged

\* the components dict after `del self.components[component_id]`
DelComponent(comps, c) == SelectSeq(comps, LAMBDA x : x # c)

\* CircuitSimulator.remove_component
RemoveComponent(c) ==
    /\ IF ~InSeq(c, components)
       THEN /\ result' = "False"
            /\ log' = Logged("remove_component", "not found", <<>>)
            /\ UNCHANGED <<components, nodes>>
       ELSE /\ nodes' = RemoveFromNodes(nodes, c, connections(c))
            /\ components' = DelComponent(components, c)
            /\ result' = "True"
            /\ log' = Logged("remove_component", "Removed component", <<c>>)
    /\ Notify(<<>>)
    /\ UNCHANGED connected_to
    /\ SimUnchanged

\* CircuitSimulator.connect_components_at
ConnectComponentsAt(c1, n1, c2, n2) ==
    LET r == connect_components_at(components, connected_to, c1, n1, c2, n2)
    IN  /\ Links(r.cto, Objects) <= MaxLinks
        /\ connected_to' = r.cto
        /\ result' = Bool(r.ok)
        /\ log' = Logged("connect_components_at", r.msg,
                         IF r.ok THEN <<c1, n1, c2, n2>> ELSE <<>>)
        /\ Notify(<<>>)
        /\ UNCHANGED <<components, nodes>>
        /\ SimUnchanged

\* CircuitSimulator.disconnect_components_at
DisconnectComponentsAt(c1, n1, c2, n2) ==
    LET r == disconnect_components_at(components, connected_to, c1, n1, c2, n2)
    IN  /\ connected_to' = r.cto
        /\ nodes' = IF InSeq(c1, components) /\ InSeq(c2, components)
                    THEN DisconnectNodes(nodes, r.cto, c1, n1, c2, n2)
                    ELSE nodes
        /\ result' = Bool(r.ok)
        /\ log' = Logged("disconnect_components_at", r.msg,
                         IF r.ok THEN <<c1, n1, c2, n2>> ELSE <<>>)
        /\ Notify(<<>>)
        /\ UNCHANGED components
        /\ SimUnchanged

-----------------------------------------------------------------------------
(* The state block of each class.  The nested dicts 'voltages' and         *)
(* 'currents' are flattened to the keys "voltages.<name>" and              *)
(* "currents.<name>", the keys update() records history under.             *)

TerminalBlock(c) ==
    [k \in {"voltages." \o n : n \in connection_points(c)}
           \cup {"currents." \o n : n \in connection_points(c)} |-> 0]

\* _init_state of each class
InitState(c) ==
    CASE ClassName(c) \in {"DCVoltageSource", "DCCurrentSource"}
              -> TerminalBlock(c) @@ [power |-> 0]
      [] ClassName(c) = "ACVoltageSource" ->
            TerminalBlock(c) @@ [power |-> 0, instantaneous_voltage |-> 0, time |-> 0]
      [] ClassName(c) = "Resistor" -> TerminalBlock(c) @@ [power |-> 0, temperature |-> 25000]
      [] ClassName(c) = "Capacitor" -> TerminalBlock(c) @@ [charge |-> 0, energy |-> 0]
      [] ClassName(c) = "Inductor" -> TerminalBlock(c) @@ [flux |-> 0, energy |-> 0]
      [] ClassName(c) = "Ground" -> TerminalBlock(c)
      [] ClassName(c) = "Diode" -> TerminalBlock(c) @@ [power |-> 0, conducting |-> FALSE]
      [] ClassName(c) = "LED" ->
            TerminalBlock(c) @@ [power |-> 0, conducting |-> FALSE, brightness |-> 0,
                                 color |-> get_property(c, "color", "red")]
      [] ClassName(c) = "BJT" -> TerminalBlock(c) @@ [region |-> "cutoff"]
      [] ClassName(c) = "Switch" ->
            TerminalBlock(c) @@ [closed |-> get_property(c, "state", FALSE)]

\* `defaultdict(lambda: defaultdict(list))`: a series never appended to is the empty list
EmptyHistory(ids) == [c \in ids |-> [k \in DOMAIN InitState(c) |-> <<>>]]

\* CircuitSimulator.__init__, with the component objects `ids` constructed
Constructed(ids) ==
    /\ components = <<>>
    /\ connected_to = [c \in ids |-> <<>>]
    /\ state = [c \in ids |-> InitState(c)]
    /\ ac_simulation_time = [c \in {x \in ids : ClassName(x) = "ACVoltageSource"} |-> 0]
    /\ nodes = <<>>
    /\ ground_node = "None"
    /\ simulation_time = 0
    /\ running = FALSE
    /\ paused = FALSE
    /\ update_count = 0
    /\ stats = [iterations |-> 0]
    /\ history = EmptyHistory(ids)
    /\ events = <<>>
    /\ received = Delivered(<<>>)
    /\ result = "None"
    /\ log = Logged("__init__", "", <<>>)

-----------------------------------------------------------------------------
(* build_circuit_from_components.                                          *)

\* Node(node_id)
Node(node_id) == [id |-> node_id, members |-> <<>>, voltage |-> 0, current_sum |-> 0]

\* Node.add_component
add_component(node, key) ==
    IF InSeq(key, node.members) THEN node ELSE [node EXCEPT !.members = Append(@, key)]

\* the (key1, key2) pairs that Step 1 visits, in its iteration order
PeerPairs(c, name, peers) == [i \in DOMAIN peers |-> <<<<c, name>>, peers[i]>>]

RECURSIVE TerminalPairs(_, _)
TerminalPairs(c, ct) ==
    IF ct = <<>> THEN <<>>
    ELSE PeerPairs(c, Head(ct).name, Head(ct).peers) \o TerminalPairs(c, Tail(ct))

RECURSIVE ConnectionPairs(_, _)
ConnectionPairs(comps, cto) ==
    IF comps = <<>> THEN <<>>
    ELSE TerminalPairs(Head(comps), cto[Head(comps)]) \o ConnectionPairs(Tail(comps), cto)

\* every (component_id, conn_name) of component.connections, in the order of Step 2
RECURSIVE TerminalKeys(_)
TerminalKeys(comps) ==
    IF comps = <<>> THEN <<>>
    ELSE [i \in DOMAIN connections(Head(comps)) |-> <<Head(comps), connections(Head(comps))[i]>>]
         \o TerminalKeys(Tail(comps))

\* the id of a new group when the numbering goes on from the nodes the simulator holds
GroupName_Continued(n) == "group_" \o ToString(n + Len(nodes))

\* f"group_{next_group_id}"
GroupName(n) == "group_" \o ToString(n)

GroupIndex(groups, group_id) == CHOOSE i \in DOMAIN groups : groups[i].id = group_id

\* connection_groups[group_id].extend(keys)
ExtendGroup(groups, group_id, keys) ==
    [groups EXCEPT ![GroupIndex(groups, group_id)].connections = @ \o keys]

\* connection_groups.pop(group_id)
PopGroup(groups, group_id) == SelectSeq(groups, LAMBDA gr : gr.id # group_id)

\* a new group holding keys; g is [map: connection_map, groups: connection_groups,
\* next: next_group_id]
NewGroup(g, keys) ==
    [map |-> [k \in DOMAIN g.map \cup Range(keys) |->
                 IF k \in Range(keys) THEN GroupName(g.next) ELSE g.map[k]],
     groups |-> Append(g.groups, [id |-> GroupName(g.next), connections |-> keys]),
     next |-> g.next + 1]

\* key joins the group group_id
JoinGroup(g, key, group_id) ==
    [map |-> [k \in DOMAIN g.map \cup {key} |-> IF k = key THEN group_id ELSE g.map[k]],
     groups |-> ExtendGroup(g.groups, group_id, <<key>>),
     next |-> g.next]

\* the body of Step 1's innermost loop
GroupStep(g, key1, key2) ==
    IF key1 \in DOMAIN g.map /\ key2 \in DOMAIN g.map
    THEN LET group_id1 == g.map[key1]
             group_id2 == g.map[key2]
         IN  IF group_id1 # group_id2
             THEN [map |-> [k \in DOMAIN g.map |->
                               IF g.map[k] = group_id2 THEN group_id1 ELSE g.map[k]],
                   groups |-> IF \E i \in DOMAIN g.groups : g.groups[i].id = group_id2
                              THEN ExtendGroup(PopGroup(g.groups, group_id2), group_id1,
                                     g.groups[GroupIndex(g.groups, group_id2)].connections)
                              ELSE g.groups,
                   next |-> g.next]
             ELSE g
    ELSE IF key1 \in DOMAIN g.map THEN JoinGroup(g, key2, g.map[key1])
    ELSE IF key2 \in DOMAIN g.map THEN JoinGroup(g, key1, g.map[key2])
    ELSE NewGroup(g, <<key1, key2>>)

\* Step 1
RECURSIVE GroupConnected(_, _)
GroupConnected(g, pairs) ==
    IF pairs = <<>> THEN g
    ELSE GroupConnected(GroupStep(g, Head(pairs)[1], Head(pairs)[2]), Tail(pairs))

\* Step 2
RECURSIVE GroupUnconnected(_, _)
GroupUnconnected(g, keys) ==
    IF keys = <<>> THEN g
    ELSE GroupUnconnected(IF Head(keys) \in DOMAIN g.map THEN g ELSE NewGroup(g, <<Head(keys)>>),
                          Tail(keys))

\* Step 3 for one group: the node holds the terminals whose component is in the simulator
RECURSIVE NodeOfGroup(_, _, _)
NodeOfGroup(node, conns, comps) ==
    IF conns = <<>> THEN node
    ELSE NodeOfGroup(IF InSeq(Head(conns)[1], comps) THEN add_component(node, Head(conns))
                     ELSE node,
                     Tail(conns), comps)

\* get_node_for_component: the id of the first node that holds the terminal, or "None"
get_node_for_component(ns, component_id, connection_name) ==
    IF \E i \in DOMAIN ns : InSeq(<<component_id, connection_name>>, ns[i].members)
    THEN ns[CHOOSE i \in DOMAIN ns :
                /\ InSeq(<<component_id, connection_name>>, ns[i].members)
                /\ \A j \in 1..(i - 1) : ~InSeq(<<component_id, connection_name>>, ns[j].members)].id
    ELSE "None"

\* Step 4's search: the node of terminal `name` of the first component of one of the
\* classes that has such a node, or "None"
NodeOfFirst(ns, comps, classes, name) ==
    LET found == SelectSeq(comps, LAMBDA c : /\ ClassName(c) \in classes
                                             /\ get_node_for_component(ns, c, name) # "None")
    IN  IF found = <<>> THEN "None" ELSE get_node_for_component(ns, Head(found), name)

\* node.voltage = v on the node with this id
SetVoltage(ns, node_id, v) ==
    IF node_id = "None" THEN ns ELSE [ns EXCEPT ![NodeIndex(ns, node_id)].voltage = v]

\* Step 4 with the voltage sources searched before the Ground components
FindGround_SourcesFirst(ns, comps) ==
    LET by_ground == NodeOfFirst(ns, comps, {"Ground"}, "gnd")
        by_source == NodeOfFirst(ns, comps, {"DCVoltageSource", "ACVoltageSource"}, "neg")
    IN  IF by_source # "None" THEN by_source
        ELSE IF by_ground # "None" THEN by_ground
        ELSE IF ns # <<>> THEN ns[1].id
        ELSE "default_ground"

\* Step 4: the node chosen as ground
FindGround(ns, comps) ==
    LET by_ground == NodeOfFirst(ns, comps, {"Ground"}, "gnd")
        by_source == NodeOfFirst(ns, comps, {"DCVoltageSource", "ACVoltageSource"}, "neg")
    IN  IF by_ground # "None" THEN by_ground
        ELSE IF by_source # "None" THEN by_source
        ELSE IF ns # <<>> THEN ns[1].id
        ELSE "default_ground"

\* build_circuit_from_components: the node map and the ground node it leaves
build_circuit_from_components(comps, cto) ==
    LET g0 == [map |-> [k \in {} |-> ""], groups |-> <<>>, next |-> 0]
        g1 == GroupConnected(g0, ConnectionPairs(comps, cto))
        g2 == GroupUnconnected(g1, TerminalKeys(comps))
        ns == [i \in DOMAIN g2.groups |->
                  NodeOfGroup(Node(g2.groups[i].id), g2.groups[i].connections, comps)]
        ground == FindGround(ns, comps)
        ns1 == IF ground = "default_ground" THEN Append(ns, Node("default_ground")) ELSE ns
    IN  [nodes |-> SetVoltage(ns1, ground, 0), ground_node |-> ground]

-----------------------------------------------------------------------------
(* Arithmetic of the component models, in the units of the header.         *)

\* config.SIMULATION_TIMESTEP, in ticks
time_step == 1

\* config.DEFAULT_RESISTANCE
DEFAULT_RESISTANCE == 1000

\* config.DEFAULT_CAPACITANCE, config.DEFAULT_INDUCTANCE
DEFAULT_CAPACITANCE == 1000

DEFAULT_INDUCTANCE == 1

\* config.DEFAULT_VOLTAGE
DEFAULT_VOLTAGE == 5000

\* config.DEFAULT_FREQUENCY
DEFAULT_FREQUENCY == 1000

\* CircuitSimulator.history_length
history_length == 1000

\* one ampere, the default max_current of the sources and of the Diode
Ampere == 1000000000

Abs(x) == IF x < 0 THEN -x ELSE x

Min(a, b) == IF a < b THEN a ELSE b

\* a / d
Div(a, d) == IF a < 0 THEN -((-a) \div d) ELSE a \div d

\* a * b / d for a, b >= 0, computed without leaving the machine integers
MulDivNat(a, b, d) == (a \div d) * b + ((a % d) * b) \div d

\* a * b / d
MulDiv(a, b, d) ==
    IF (a < 0) # (b < 0) THEN -MulDivNat(Abs(a), Abs(b), d) ELSE MulDivNat(Abs(a), Abs(b), d)

\* voltage * current in uW
Power(v, i) ==
    LET a == Abs(i)
        b == Abs(v)
        p == (a \div 1000000) * b
             + (((a \div 1000) % 1000) * b + ((a % 1000) * b) \div 1000) \div 1000
    IN  IF (v < 0) # (i < 0) THEN -p ELSE p

\* `x if abs(x) <= max_current else +-max_current`
Limit(x, max_current) ==
    IF Abs(x) > max_current THEN (IF x > 0 THEN max_current ELSE -max_current) ELSE x

\* voltage_drop / resistance in nA
Ohm(voltage_drop, resistance) == MulDiv(1000000, voltage_drop, resistance)

\* (voltage_drop - forward_voltage) / 0.1, limited to max_current: ten mA for every mV
JunctionCurrent(voltage_drop, forward_voltage, max_current) ==
    IF (voltage_drop - forward_voltage) * 10 > max_current \div 1000000
    THEN max_current
    ELSE (voltage_drop - forward_voltage) * 10000000

\* math.sin(2 pi x) for x in thousandths of a cycle, times 1000
Sin(x) ==
    CASE x % 1000 = 0 -> 0
      [] x % 1000 = 250 -> 1000
      [] x % 1000 = 500 -> 0
      [] x % 1000 = 750 -> -1000

-----------------------------------------------------------------------------
(* Reading and writing the state blocks and the nodes.                     *)

\* node.voltage if node else 0.0
VoltageAt(ns, node_id) == IF node_id = "None" THEN 0 ELSE ns[NodeIndex(ns, node_id)].voltage

\* the voltage of the node of a terminal
TerminalVoltage(ns, c, name) == VoltageAt(ns, get_node_for_component(ns, c, name))

\* BaseComponent.get_current (None is read as nothing to add)
get_current(st, c, name) ==
    IF ("currents." \o name) \in DOMAIN st[c] THEN st[c]["currents." \o name] ELSE 0

\* the dicts {'voltages': {...}} and {'currents': {...}} of a two-terminal component
Voltages2(n1, v1, n2, v2) == ("voltages." \o n1 :> v1) @@ ("voltages." \o n2 :> v2)

Currents2(n1, n2, current) == ("currents." \o n1 :> current) @@ ("currents." \o n2 :> -current)

\* apply(state_updates): a category is taken when the state block has it
apply(block, state_updates) ==
    [k \in DOMAIN block |-> IF k \in DOMAIN state_updates THEN state_updates[k] ELSE block[k]]

-----------------------------------------------------------------------------
(* calculate of each component class: the state updates it returns and     *)
(* what it writes besides (the node voltages, the component's own clock).  *)

\* DCVoltageSource.calculate
calculate_DCVoltageSource(c, ns, st) ==
    LET voltage == get_property(c, "voltage", DEFAULT_VOLTAGE)
        max_current == get_property(c, "max_current", Ampere)
        node_pos == get_node_for_component(ns, c, "pos")
        node_neg == get_node_for_component(ns, c, "neg")
        current == Limit(IF node_pos # "None" THEN st[c]["currents.pos"] ELSE 0, max_current)
    IN  [updates |-> Voltages2("pos", voltage, "neg", 0) @@ Currents2("pos", "neg", current)
                     @@ ("power" :> Power(voltage, current)),
         nodes |-> SetVoltage(SetVoltage(ns, node_pos, voltage), node_neg, 0)]

\* the sum, negated, of the currents of the terminals of other components on a node
RECURSIVE DrawnCurrent(_, _, _)
DrawnCurrent(st, c, members) ==
    IF members = <<>> THEN 0
    ELSE (IF Head(members)[1] # c THEN -get_current(st, Head(members)[1], Head(members)[2])
          ELSE 0)
         + DrawnCurrent(st, c, Tail(members))

\* ACVoltageSource.calculate; t is self.simulation_time when it is called
calculate_ACVoltageSource(c, ns, st, t) ==
    LET amplitude == get_property(c, "amplitude", DEFAULT_VOLTAGE)
        frequency == get_property(c, "frequency", DEFAULT_FREQUENCY)
        phase == get_property(c, "phase", 0)
        max_current == get_property(c, "max_current", Ampere)
        simulation_time1 == t + time_step
        voltage == Div(amplitude * Sin(frequency * simulation_time1 + Div(phase * 1000, 360)),
                       1000)
        node_pos == get_node_for_component(ns, c, "pos")
        current == Limit(IF node_pos # "None"
                         THEN DrawnCurrent(st, c, ns[NodeIndex(ns, node_pos)].members)
                         ELSE 0, max_current)
    IN  [updates |-> Voltages2("pos", voltage, "neg", 0) @@ Currents2("pos", "neg", current)
                     @@ ("power" :> Power(voltage, current))
                     @@ ("instantaneous_voltage" :> voltage)
                     @@ ("time" :> simulation_time1),
         simulation_time |-> simulation_time1]

\* Resistor.calculate
calculate_Resistor(c, ns) ==
    LET resistance == get_property(c, "resistance", DEFAULT_RESISTANCE)
        max_power == get_property(c, "max_power", 250000)
        v_p1 == TerminalVoltage(ns, c, "p1")
        v_p2 == TerminalVoltage(ns, c, "p2")
        voltage_drop == v_p1 - v_p2
        current == IF resistance > 0 THEN Ohm(voltage_drop, resistance) ELSE 0
        power == Power(voltage_drop, current)
    IN  Voltages2("p1", v_p1, "p2", v_p2) @@ Currents2("p1", "p2", current)
        @@ ("power" :> power)
        @@ ("temperature" :> IF power > 0
                             THEN 25000 + MulDiv(power, 50, Div(max_power, 1000))
                             ELSE 25000)

\* Capacitor.calculate
calculate_Capacitor(c, ns, st) ==
    LET capacitance == get_property(c, "capacitance", DEFAULT_CAPACITANCE)
        v_p1 == TerminalVoltage(ns, c, "p1")
        v_p2 == TerminalVoltage(ns, c, "p2")
        voltage_drop == v_p1 - v_p2
        previous_charge == st[c]["charge"]
        new_charge == capacitance * voltage_drop
        current == IF time_step > 0 THEN Div(new_charge - previous_charge, time_step) ELSE 0
    IN  Voltages2("p1", v_p1, "p2", v_p2) @@ Currents2("p1", "p2", current)
        @@ ("charge" :> new_charge)
        @@ ("energy" :> MulDiv(capacitance * voltage_drop, voltage_drop, 2000))

\* Inductor.calculate
calculate_Inductor(c, ns, st) ==
    LET inductance == get_property(c, "inductance", DEFAULT_INDUCTANCE)
        v_p1 == TerminalVoltage(ns, c, "p1")
        v_p2 == TerminalVoltage(ns, c, "p2")
        voltage_drop == v_p1 - v_p2
        current_delta == IF inductance > 0
                         THEN MulDiv(1000000 * time_step, voltage_drop, inductance)
                         ELSE 0
        new_current == st[c]["currents.p1"] + current_delta
        microamps == Div(new_current, 1000)
    IN  Voltages2("p1", v_p1, "p2", v_p2) @@ Currents2("p1", "p2", new_current)
        @@ ("flux" :> inductance * microamps)
        @@ ("energy" :> Div(MulDiv(microamps, microamps, 1000) * inductance, 2))

\* Ground.calculate
calculate_Ground(c) == ("voltages.gnd" :> 0) @@ ("currents.gnd" :> 0)

\* `voltage_drop > forward_voltage * 0.9`
ForwardBiased(voltage_drop, forward_voltage) == voltage_drop * 10 > forward_voltage * 9

\* current / max_current, per mille
Ratio(current, max_current) == Div(Div(current, 1000) * 1000, Div(max_current, 1000))

\* Diode.calculate
calculate_Diode(c, ns) ==
    LET forward_voltage == get_property(c, "forward_voltage", 700)
        max_current == get_property(c, "max_current", Ampere)
        v_anode == TerminalVoltage(ns, c, "anode")
        v_cathode == TerminalVoltage(ns, c, "cathode")
        voltage_drop == v_anode - v_cathode
        conducting == ForwardBiased(voltage_drop, forward_voltage)
        current == IF conducting THEN JunctionCurrent(voltage_drop, forward_voltage, max_current)
                   ELSE 0
    IN  Voltages2("anode", v_anode, "cathode", v_cathode)
        @@ Currents2("anode", "cathode", current)
        @@ ("power" :> Power(voltage_drop, current))
        @@ ("conducting" :> conducting)

\* LED.calculate with the brightness of a conducting LED taken from its current alone,
\* as the loop over diodes and LEDs of solve_circuit takes it
calculate_LED_Unguarded(c, ns) ==
    LET forward_voltage == get_property(c, "forward_voltage", 2000)
        max_current == get_property(c, "max_current", 20000000)
        v_anode == TerminalVoltage(ns, c, "anode")
        v_cathode == TerminalVoltage(ns, c, "cathode")
        voltage_drop == v_anode - v_cathode
        conducting == ForwardBiased(voltage_drop, forward_voltage)
        current == IF conducting THEN JunctionCurrent(voltage_drop, forward_voltage, max_current)
                   ELSE IF voltage_drop < 0 THEN -1
                   ELSE 0
        brightness == IF conducting THEN Min(1000, Ratio(current, max_current)) ELSE 0
    IN  Voltages2("anode", v_anode, "cathode", v_cathode)
        @@ Currents2("anode", "cathode", current)
        @@ ("power" :> Power(voltage_drop, current))
        @@ ("conducting" :> conducting)
        @@ ("brightness" :> brightness)
        @@ ("color" :> get_property(c, "color", "red"))

\* LED.calculate
calculate_LED(c, ns) ==
    LET forward_voltage == get_property(c, "forward_voltage", 2000)
        max_current == get_property(c, "max_current", 20000000)
        v_anode == TerminalVoltage(ns, c, "anode")
        v_cathode == TerminalVoltage(ns, c, "cathode")
        voltage_drop == v_anode - v_cathode
        conducting == ForwardBiased(voltage_drop, forward_voltage)
        current == IF conducting THEN JunctionCurrent(voltage_drop, forward_voltage, max_current)
                   ELSE IF voltage_drop < 0 THEN -1
                   ELSE 0
        brightness == IF current > 0 /\ voltage_drop * 10 >= forward_voltage * 9
                      THEN Min(1000, Ratio(current, max_current))
                      ELSE 0
    IN  Voltages2("anode", v_anode, "cathode", v_cathode)
        @@ Currents2("anode", "cathode", current)
        @@ ("power" :> Power(voltage_drop, current))
        @@ ("conducting" :> conducting)
        @@ ("brightness" :> brightness)
        @@ ("color" :> get_property(c, "color", "red"))

\* BJT.calculate
calculate_BJT(c, ns) ==
    LET gain == get_property(c, "gain", 100)
        is_npn == get_property(c, "type", "npn") = "npn"
        vbe_threshold == get_property(c, "vbe_threshold", 700)
        max_collector_current == get_property(c, "max_collector_current", 500000000)
        v_collector == TerminalVoltage(ns, c, "collector")
        v_base == TerminalVoltage(ns, c, "base")
        v_emitter == TerminalVoltage(ns, c, "emitter")
        vbe == IF is_npn THEN v_base - v_emitter ELSE v_emitter - v_base
        vce == IF is_npn THEN v_collector - v_emitter ELSE v_emitter - v_collector
        vbc == IF is_npn THEN v_base - v_collector ELSE v_collector - v_base
        region == IF vbe < vbe_threshold THEN "cutoff"
                  ELSE IF vbc > 0 THEN "saturation"
                  ELSE "active"
        ib == IF region = "cutoff" THEN 0 ELSE (vbe - vbe_threshold) * 1000
        ic == IF region = "cutoff" THEN 0 ELSE Min(gain * ib, max_collector_current)
        ie == IF region = "cutoff" THEN 0 ELSE ib + ic
        sign == IF is_npn THEN 1 ELSE -1
    IN  ("voltages.collector" :> v_collector) @@ ("voltages.base" :> v_base)
        @@ ("voltages.emitter" :> v_emitter)
        @@ ("currents.collector" :> sign * ic) @@ ("currents.base" :> sign * ib)
        @@ ("currents.emitter" :> sign * ie)
        @@ ("power" :> Power(vce, ic) + Power(vbe, ib))
        @@ ("region" :> region)

\* Switch.calculate; the max_current of a Switch is in mA (its default of 5 A is more
\* nA than a machine integer holds)
calculate_Switch(c, ns) ==
    LET closed == get_property(c, "state", FALSE)
        max_current == get_property(c, "max_current", 5000)
        v_p1 == TerminalVoltage(ns, c, "p1")
        v_p2 == TerminalVoltage(ns, c, "p2")
        current == IF closed THEN Limit((v_p1 - v_p2) * 100, max_current) * 1000000 ELSE 0
    IN  Voltages2("p1", v_p1, "p2", v_p2) @@ Currents2("p1", "p2", current)
        @@ ("closed" :> closed)

\* an AC source leaves the node map alone and advances its own clock
Clocked(r, c, ns, act) ==
    [updates |-> r.updates, nodes |-> ns, ac |-> [act EXCEPT ![c] = r.simulation_time]]

\* component.calculate(simulator, time_step): the state updates, the node map and the
\* clocks of the AC sources after the call
calculate(c, ns, st, act) ==
    CASE ClassName(c) = "DCVoltageSource" ->
            [ac |-> act] @@ calculate_DCVoltageSource(c, ns, st)
      [] ClassName(c) = "ACVoltageSource" ->
            Clocked(calculate_ACVoltageSource(c, ns, st, act[c]), c, ns, act)
      [] ClassName(c) = "Resistor" ->
            [updates |-> calculate_Resistor(c, ns), nodes |-> ns, ac |-> act]
      [] ClassName(c) = "Capacitor" ->
            [updates |-> calculate_Capacitor(c, ns, st), nodes |-> ns, ac |-> act]
      [] ClassName(c) = "Inductor" ->
            [updates |-> calculate_Inductor(c, ns, st), nodes |-> ns, ac |-> act]
      [] ClassName(c) = "Ground" ->
            [updates |-> calculate_Ground(c), nodes |-> ns, ac |-> act]
      [] ClassName(c) = "Diode" ->
            [updates |-> calculate_Diode(c, ns), nodes |-> ns, ac |-> act]
      [] ClassName(c) = "LED" ->
            [updates |-> calculate_LED(c, ns), nodes |-> ns, ac |-> act]
      [] ClassName(c) = "BJT" ->
            [updates |-> calculate_BJT(c, ns), nodes |-> ns, ac |-> act]
      [] ClassName(c) = "Switch" ->
            [updates |-> calculate_Switch(c, ns), nodes |-> ns, ac |-> act]

-----------------------------------------------------------------------------
(* CircuitSolver.solve_circuit, which the solver binds into the simulator. *)

\* the loop over the voltage sources: a DC source puts its voltage on the node of pos
\* and 0 on the node of neg
RECURSIVE SourceVoltages(_, _)
SourceVoltages(ns, comps) ==
    IF comps = <<>> THEN ns
    ELSE IF ClassName(Head(comps)) = "DCVoltageSource"
    THEN SourceVoltages(
             SetVoltage(SetVoltage(ns, get_node_for_component(ns, Head(comps), "pos"),
                                   get_property(Head(comps), "voltage", DEFAULT_VOLTAGE)),
                        get_node_for_component(ns, Head(comps), "neg"), 0),
             Tail(comps))
    ELSE SourceVoltages(ns, Tail(comps))

\* component.state['voltages'][connection_name] = node_voltage for the members of a node
RECURSIVE PropagateNode(_, _, _)
PropagateNode(st, members, node_voltage) ==
    IF members = <<>> THEN st
    ELSE PropagateNode(
             [st EXCEPT ![Head(members)[1]]["voltages." \o Head(members)[2]] = node_voltage],
             Tail(members), node_voltage)

RECURSIVE Propagate(_, _)
Propagate(st, ns) ==
    IF ns = <<>> THEN st
    ELSE Propagate(PropagateNode(st, Head(ns).members, Head(ns).voltage), Tail(ns))

\* line 120 divides by the max_current of a conducting LED: ZeroDivisionError when it is 0
JunctionRaises(c, block) ==
    /\ ClassName(c) = "LED"
    /\ get_property(c, "max_current", 20000000) = 0
    /\ ForwardBiased(block["voltages.anode"] - block["voltages.cathode"],
                     get_property(c, "forward_voltage", 2000))

\* what the loop has written into the state block of the LED when line 120 raises
RaisedJunction(c, block) ==
    apply(block, Currents2("anode", "cathode",
                           JunctionCurrent(block["voltages.anode"] - block["voltages.cathode"],
                                           get_property(c, "forward_voltage", 2000),
                                           get_property(c, "max_current", Ampere)))
                 @@ ("conducting" :> TRUE))

\* what the loop over diodes and LEDs writes into the state block of one of them
SolveJunction(c, block) ==
    LET voltage_drop == block["voltages.anode"] - block["voltages.cathode"]
        forward_voltage == get_property(c, "forward_voltage",
                                        IF ClassName(c) = "Diode" THEN 700 ELSE 2000)
        current == JunctionCurrent(voltage_drop, forward_voltage,
                                   get_property(c, "max_current", Ampere))
        max_led_current == get_property(c, "max_current", 20000000)
    IN  IF ForwardBiased(voltage_drop, forward_voltage)
        THEN apply(block, Currents2("anode", "cathode", current) @@ ("conducting" :> TRUE)
                          @@ (IF ClassName(c) = "LED"
                              THEN ("brightness" :> Min(1000, Ratio(current, max_led_current)))
                              ELSE ("conducting" :> TRUE)))
        ELSE apply(block, Currents2("anode", "cathode", 0) @@ ("conducting" :> FALSE)
                          @@ (IF ClassName(c) = "LED" THEN ("brightness" :> 0)
                              ELSE ("conducting" :> FALSE)))

\* the loop over diodes and LEDs: the state blocks it leaves and the exception it
\* raised, if any
RECURSIVE SolveJunctions(_, _)
SolveJunctions(st, comps) ==
    IF comps = <<>> THEN [state |-> st, raised |-> "None"]
    ELSE IF ClassName(Head(comps)) \notin {"Diode", "LED"} THEN SolveJunctions(st, Tail(comps))
    ELSE IF JunctionRaises(Head(comps), st[Head(comps)])
    THEN [state |-> [st EXCEPT ![Head(comps)] = RaisedJunction(Head(comps), @)],
          raised |-> "ZeroDivisionError"]
    ELSE SolveJunctions([st EXCEPT ![Head(comps)] = SolveJunction(Head(comps), @)], Tail(comps))

\* solve_circuit: the node map and the state blocks it leaves, and the exception it raised
solve_circuit(comps, ns, ground, st) ==
    IF ground = "None" THEN [nodes |-> ns, state |-> st, raised |-> "None"]
    ELSE LET ns1 == SourceVoltages(SetVoltage(ns, ground, 0), comps)
         IN  [nodes |-> ns1] @@ SolveJunctions(Propagate(st, ns1), comps)

-----------------------------------------------------------------------------
(* One tick: CircuitSimulator.update.                                      *)

\* `not self.running or self.paused` left out of update's first test
TickSkipped_OnlyWhenEmpty(is_running, is_paused, comps) == comps = <<>>

\* update's first test: `not self.running or self.paused or not self.components`
TickSkipped(is_running, is_paused, comps) == ~is_running \/ is_paused \/ comps = <<>>

\* the samples of one component when no sample is ever removed
Record_KeepAll(series, block, t) ==
    [k \in DOMAIN series |-> Append(series[k], <<t, block[k]>>)]

\* the samples of one component after its state block is recorded at time t
Record(series, block, t) ==
    [k \in DOMAIN series |->
        Append(IF Len(series[k]) >= history_length THEN Tail(series[k]) ELSE series[k],
               <<t, block[k]>>)]

\* the loop over the components: calculate, apply, record; s is [nodes, state, ac,
\* history] and t is simulation_time
Recorded(s, c, block, t) ==
    [s EXCEPT !.state[c] = block, !.history[c] = Record(@, block, t)]

\* one pass of the loop: r is what calculate returned and left behind
UpdateComponent(s, c, r, t) ==
    Recorded([s EXCEPT !.nodes = r.nodes, !.ac = r.ac], c, apply(s.state[c], r.updates), t)

RECURSIVE UpdateComponents(_, _, _)
UpdateComponents(s, comps, t) ==
    IF comps = <<>> THEN s
    ELSE UpdateComponents(
             UpdateComponent(s, Head(comps), calculate(Head(comps), s.nodes, s.state, s.ac), t),
             Tail(comps), t)

\* Node.calculate_current_sum
RECURSIVE calculate_current_sum(_, _)
calculate_current_sum(st, members) ==
    IF members = <<>> THEN 0
    ELSE get_current(st, Head(members)[1], Head(members)[2])
         + calculate_current_sum(st, Tail(members))

\* the loop over the nodes and the advance of simulation_time that close a tick
UpdateNodes(s) ==
    [s EXCEPT !.nodes = [i \in DOMAIN s.nodes |->
                            [s.nodes[i] EXCEPT !.current_sum =
                                 calculate_current_sum(s.state, s.nodes[i].members)]],
              !.simulation_time = @ + time_step]

\* update after solve_circuit has run: nothing more when it raised (update has no
\* handler around the call), else the loops and the advance of simulation_time
AfterSolve(s, comps) ==
    IF s.raised # "None" THEN s ELSE UpdateNodes(UpdateComponents(s, comps, s.simulation_time))

\* an effective tick, from the solve to the advance of simulation_time; s is [nodes,
\* state, ac, history, simulation_time]
Tick(s, comps, ground) ==
    AfterSolve(solve_circuit(comps, s.nodes, ground, s.state) @@ s, comps)

\* what _notify_listeners hands to every listener
Event(type, data) == [type |-> type, data |-> data]

\* the values of the optional argument of update: none, or two ticks
ElapsedTimes == {<<>>, <<2>>}

\* what update leaves in stats and publishes after a tick, and what the caller gets: the
\* exception when solve_circuit raised
Completed(s) ==
    IF s.raised = "None"
    THEN /\ stats' = [iterations |-> 0, simulation_time |-> s.simulation_time]
         /\ Notify(<<Event("SIMULATION_UPDATED", stats')>>)
         /\ result' = stats'
    ELSE /\ stats' = stats
         /\ Notify(<<>>)
         /\ result' = [exception |-> s.raised]

\* CircuitSimulator.update, called with the arguments args (elapsed_time or nothing); at
\* most `limit` ticks are explored
update(args, limit) ==
    /\ IF TickSkipped(running, paused, components)
       THEN /\ Notify(<<>>)
            /\ result' = stats
            /\ UNCHANGED <<state, ac_simulation_time, nodes, simulation_time, update_count,
                           stats, history>>
       ELSE /\ update_count < limit
            /\ \E s \in {Tick([nodes |-> nodes, state |-> state, ac |-> ac_simulation_time,
                               history |-> history, simulation_time |-> simulation_time],
                              components, ground_node)} :
                   /\ nodes' = s.nodes
                   /\ state' = s.state
                   /\ ac_simulation_time' = s.ac
                   /\ history' = s.history
                   /\ simulation_time' = s.simulation_time
                   /\ Completed(s)
            /\ update_count' = update_count + 1
    /\ log' = Logged("update", "", args)
    /\ UNCHANGED <<components, connected_to, ground_node, running, paused>>

Update == \E args \in ElapsedTimes : update(args, MaxUpdates)

-----------------------------------------------------------------------------
(* The lifecycle operations.                                               *)

TopologyUnchanged == UNCHANGED <<components, connected_to, nodes, ground_node>>

\* CircuitSimulator.start_simulation
StartSimulation ==
    /\ IF ~running
       THEN /\ running' = TRUE
            /\ simulation_time' = 0
            /\ Notify(<<Event("SIMULATION_STARTED", [time |-> simulation_time'])>>)
            /\ log' = Logged("start_simulation", "Simulation started", <<>>)
       ELSE /\ Notify(<<>>)
            /\ log' = Logged("start_simulation", "", <<>>)
            /\ UNCHANGED <<running, simulation_time>>
    /\ result' = "None"
    /\ TopologyUnchanged
    /\ UNCHANGED <<state, ac_simulation_time, paused, update_count, stats, history>>

\* stop_simulation without the notification
StopSimulation_Silent ==
    /\ running' = FALSE
    /\ Notify(<<>>)
    /\ log' = Logged("stop_simulation", IF running THEN "Simulation stopped" ELSE "", <<>>)
    /\ result' = "None"
    /\ UNCHANGED <<components, connected_to, nodes, ground_node, state, ac_simulation_time,
                   simulation_time, paused, update_count, stats, history>>

\* CircuitSimulator.stop_simulation
StopSimulation ==
    /\ IF running
       THEN /\ running' = FALSE
            /\ Notify(<<Event("SIMULATION_STOPPED", [time |-> simulation_time])>>)
            /\ log' = Logged("stop_simulation", "Simulation stopped", <<>>)
       ELSE /\ Notify(<<>>)
            /\ log' = Logged("stop_simulation", "", <<>>)
            /\ UNCHANGED running
    /\ result' = "None"
    /\ TopologyUnchanged
    /\ UNCHANGED <<state, ac_simulation_time, simulation_time, paused, update_count, stats,
                   history>>

\* CircuitSimulator.pause_simulation
PauseSimulation ==
    /\ IF running /\ ~paused
       THEN /\ paused' = TRUE
            /\ Notify(<<Event("SIMULATION_PAUSED", [time |-> simulation_time])>>)
            /\ log' = Logged("pause_simulation", "Simulation paused", <<>>)
       ELSE /\ Notify(<<>>)
            /\ log' = Logged("pause_simulation", "", <<>>)
            /\ UNCHANGED paused
    /\ result' = "None"
    /\ TopologyUnchanged
    /\ UNCHANGED <<state, ac_simulation_time, simulation_time, running, update_count, stats,
                   history>>

\* CircuitSimulator.resume_simulation
ResumeSimulation ==
    /\ IF running /\ paused
       THEN /\ paused' = FALSE
            /\ Notify(<<Event("SIMULATION_RESUMED", [time |-> simulation_time])>>)
            /\ log' = Logged("resume_simulation", "Simulation resumed", <<>>)
       ELSE /\ Notify(<<>>)
            /\ log' = Logged("resume_simulation", "", <<>>)
            /\ UNCHANGED paused
    /\ result' = "None"
    /\ TopologyUnchanged
    /\ UNCHANGED <<state, ac_simulation_time, simulation_time, running, update_count, stats,
                   history>>

\* the loop of reset_simulation, with the AC sources left as they are
ResetStates_ExceptSources(comps, st) ==
    [c \in DOMAIN st |->
        IF InSeq(c, comps) /\ ClassName(c) # "ACVoltageSource" THEN InitState(c) ELSE st[c]]

\* the loop of reset_simulation: component._init_state() for every component
ResetStates(comps, st) == [c \in DOMAIN st |-> IF InSeq(c, comps) THEN InitState(c) ELSE st[c]]

\* CircuitSimulator.reset_simulation
ResetSimulation ==
    /\ simulation_time' = 0
    /\ history' = EmptyHistory(DOMAIN history)
    /\ state' = ResetStates(components, state)
    /\ Notify(<<Event("SIMULATION_RESET", [time |-> simulation_time'])>>)
    /\ result' = "None"
    /\ log' = Logged("reset_simulation", "Simulation reset", <<>>)
    /\ TopologyUnchanged
    /\ UNCHANGED <<ac_simulation_time, running, paused, update_count, stats>>

\* the CIRCUIT_BUILT event
CircuitBuilt(ns, comps, ground) ==
    Event("CIRCUIT_BUILT", [nodes |-> Len(ns), components |-> Len(comps), ground_node |-> ground])

\* CircuitSimulator.build_circuit_from_components
BuildCircuitFromComponents ==
    \E b \in {build_circuit_from_components(components, connected_to)} :
        /\ nodes' = b.nodes
        /\ ground_node' = b.ground_node
        /\ Notify(<<CircuitBuilt(b.nodes, components, b.ground_node)>>)
        /\ result' = Len(b.nodes)
        /\ log' = Logged("build_circuit_from_components", "Built circuit", <<>>)
        /\ UNCHANGED <<components, connected_to, state, ac_simulation_time, simulation_time,
                       running, paused, update_count, stats, history>>

\* MainWindow.start_simulation: resume when paused, otherwise build and start
MainWindowStartSimulation ==
    IF paused
    THEN ResumeSimulation
    ELSE \E b \in {build_circuit_from_components(components, connected_to)} :
             /\ nodes' = b.nodes
             /\ ground_node' = b.ground_node
             /\ IF ~running
                THEN /\ running' = TRUE
                     /\ simulation_time' = 0
                     /\ Notify(<<CircuitBuilt(b.nodes, components, b.ground_node),
                                 Event("SIMULATION_STARTED", [time |-> simulation_time'])>>)
                     /\ log' = Logged("start_simulation", "Simulation started", <<>>)
                ELSE /\ Notify(<<CircuitBuilt(b.nodes, components, b.ground_node)>>)
                     /\ log' = Logged("start_simulation", "", <<>>)
                     /\ UNCHANGED <<running, simulation_time>>
             /\ result' = "None"
             /\ UNCHANGED <<components, connected_to, state, ac_simulation_time, paused,
                            update_count, stats, history>>

-----------------------------------------------------------------------------
(* Wiring: a client adds, connects, disconnects and removes components.    *)

WireIds == {"w_V", "w_G"}

WireNames == {"pos", "neg", "p1", "p2", "gnd"}

\* a name that is not declared on the component
Undeclared(c) == IF ClassName(c) = "Ground" THEN "p1" ELSE "gnd"

\* the (component, connection name) arguments a caller passes: every declared terminal
\* of every object and, per object, one undeclared name; an object that is not (or no
\* longer) in the simulator is an unknown id
Endpoints == {<<c, n>> : c \in WireIds, n \in WireNames} \cap
             {e \in WireIds \X WireNames :
                 e[2] \in connection_points(e[1]) \cup {Undeclared(e[1])}}

InitWire == Constructed(WireIds)

NextWire ==
    \/ \E c \in WireIds : AddComponent(c)
    \/ \E e1, e2 \in Endpoints : ConnectComponentsAt(e1[1], e1[2], e2[1], e2[2])
    \/ \E e1, e2 \in Endpoints : DisconnectComponentsAt(e1[1], e1[2], e2[1], e2[2])

SpecWire == InitWire /\ [][NextWire]_vars

NextTopo ==
    \/ NextWire
    \/ \E c \in WireIds : RemoveComponent(c)

SpecTopo == InitWire /\ [][NextTopo]_vars

-----------------------------------------------------------------------------
(* The circuits: those of examples/basic_circuits.py, an RL circuit, an AC *)
(* source across a resistor, the circuit without components, and an LED of *)
(* max_current 0 across a DC source (led_zero, kept out of Circuits).      *)

Circuits == {"empty", "voltage_divider", "rc", "diode", "led", "bjt", "oscillator", "switch",
             "rl", "ac"}

\* the components a create_* function adds, in the order of its add_component calls
CircuitComponents(circuit) ==
    CASE circuit = "empty" -> <<>>
      [] circuit = "voltage_divider" -> <<"dv_V", "dv_R1", "dv_R2", "dv_G">>
      [] circuit = "rc" -> <<"rc_V", "rc_R", "rc_C", "rc_G">>
      [] circuit = "diode" -> <<"di_V", "di_R", "di_D", "di_G">>
      [] circuit = "led" -> <<"le_V", "le_R", "le_D", "le_G">>
      [] circuit = "bjt" -> <<"bj_V", "bj_RC", "bj_RB", "bj_Q", "bj_G">>
      [] circuit = "oscillator" -> <<"os_V", "os_R", "os_C", "os_G">>
      [] circuit = "switch" -> <<"sw_V", "sw_S", "sw_R", "sw_D", "sw_G">>
      [] circuit = "rl" -> <<"rl_V", "rl_L", "rl_R", "rl_G">>
      [] circuit = "ac" -> <<"ac_V", "ac_R", "ac_G">>
      [] circuit = "led_zero" -> <<"lz_V", "lz_D">>
      [] circuit = "transistors" -> <<"tr_VB", "tr_VC", "tr_Q", "tr_QS">>
      [] circuit = "junctions" -> <<"jn_V1", "jn_L1", "jn_V2", "jn_L2", "jn_V3", "jn_L3",
                                    "jn_V4", "jn_D4">>

\* its connect_components_at calls, in order
CircuitConnections(circuit) ==
    CASE circuit = "empty" -> <<>>
      [] circuit = "voltage_divider" ->
            << <<"dv_V", "pos", "dv_R1", "p1">>, <<"dv_R1", "p2", "dv_R2", "p1">>,
               <<"dv_R2", "p2", "dv_G", "gnd">>, <<"dv_V", "neg", "dv_G", "gnd">> >>
      [] circuit = "rc" ->
            << <<"rc_V", "pos", "rc_R", "p1">>, <<"rc_R", "p2", "rc_C", "p1">>,
               <<"rc_C", "p2", "rc_G", "gnd">>, <<"rc_V", "neg", "rc_G", "gnd">> >>
      [] circuit = "diode" ->
            << <<"di_V", "pos", "di_R", "p1">>, <<"di_R", "p2", "di_D", "anode">>,
               <<"di_D", "cathode", "di_G", "gnd">>, <<"di_V", "neg", "di_G", "gnd">> >>
      [] circuit = "led" ->
            << <<"le_V", "pos", "le_R", "p1">>, <<"le_R", "p2", "le_D", "anode">>,
               <<"le_D", "cathode", "le_G", "gnd">>, <<"le_V", "neg", "le_G", "gnd">> >>
      [] circuit = "bjt" ->
            << <<"bj_V", "pos", "bj_RC", "p1">>, <<"bj_RC", "p2", "bj_Q", "collector">>,
               <<"bj_V", "pos", "bj_RB", "p1">>, <<"bj_RB", "p2", "bj_Q", "base">>,
               <<"bj_Q", "emitter", "bj_G", "gnd">>, <<"bj_V", "neg", "bj_G", "gnd">> >>
      [] circuit = "oscillator" ->
            << <<"os_V", "pos", "os_R", "p1">>, <<"os_R", "p2", "os_C", "p1">>,
               <<"os_C", "p2", "os_G", "gnd">>, <<"os_V", "neg", "os_G", "gnd">> >>
      [] circuit = "switch" ->
            << <<"sw_V", "pos", "sw_S", "p1">>, <<"sw_S", "p2", "sw_R", "p1">>,
               <<"sw_R", "p2", "sw_D", "anode">>, <<"sw_D", "cathode", "sw_G", "gnd">>,
               <<"sw_V", "neg", "sw_G", "gnd">> >>
      [] circuit = "rl" ->
            << <<"rl_V", "pos", "rl_L", "p1">>, <<"rl_L", "p2", "rl_R", "p1">>,
               <<"rl_R", "p2", "rl_G", "gnd">>, <<"rl_V", "neg", "rl_G", "gnd">> >>
      [] circuit = "ac" ->
            << <<"ac_V", "pos", "ac_R", "p1">>, <<"ac_R", "p2", "ac_G", "gnd">>,
               <<"ac_V", "neg", "ac_G", "gnd">> >>
      [] circuit = "led_zero" ->
            << <<"lz_V", "pos", "lz_D", "anode">>, <<"lz_V", "neg", "lz_D", "cathode">> >>
      [] circuit = "transistors" ->
            << <<"tr_VB", "pos", "tr_Q", "base">>, <<"tr_VB", "neg", "tr_Q", "emitter">>,
               <<"tr_VC", "pos", "tr_Q", "collector">>, <<"tr_VC", "neg", "tr_Q", "emitter">>,
               <<"tr_VB", "pos", "tr_QS", "base">>, <<"tr_VB", "neg", "tr_QS", "emitter">> >>
      [] circuit = "junctions" ->
            << <<"jn_V1", "pos", "jn_L1", "anode">>, <<"jn_V1", "neg", "jn_L1", "cathode">>,
               <<"jn_V2", "pos", "jn_L2", "anode">>, <<"jn_V2", "neg", "jn_L2", "cathode">>,
               <<"jn_V3", "pos", "jn_L3", "anode">>, <<"jn_V3", "neg", "jn_L3", "cathode">>,
               <<"jn_V4", "pos", "jn_D4", "anode">>, <<"jn_V4", "neg", "jn_D4", "cathode">> >>

\* the connection lists after the connect_components_at calls in `calls`
RECURSIVE ConnectAll(_, _, _)
ConnectAll(comps, cto, calls) ==
    IF calls = <<>> THEN cto
    ELSE ConnectAll(comps,
                    connect_components_at(comps, cto, Head(calls)[1], Head(calls)[2],
                                          Head(calls)[3], Head(calls)[4]).cto,
                    Tail(calls))

\* the simulator after a create_* function of examples/basic_circuits.py: clear(), the
\* components added, build_circuit_from_components() on the components not yet
\* connected, then the connections
Created(circuit) ==
    LET comps == CircuitComponents(circuit)
        ids == Range(comps)
        unconnected == [c \in ids |-> <<>>]
        built == build_circuit_from_components(comps, unconnected)
        calls == CircuitConnections(circuit)
    IN  /\ components = comps
        /\ connected_to = ConnectAll(comps, unconnected, calls)
        /\ state = [c \in ids |-> InitState(c)]
        /\ ac_simulation_time = [c \in {x \in ids : ClassName(x) = "ACVoltageSource"} |-> 0]
        /\ nodes = built.nodes
        /\ ground_node = built.ground_node
        /\ simulation_time = 0
        /\ running = FALSE
        /\ paused = FALSE
        /\ update_count = 0
        /\ stats = [iterations |-> 0]
        /\ history = EmptyHistory(ids)
        /\ events = <<>>
        /\ received = Delivered(<<>>)
        /\ result = "True"
        /\ log = Logged("create_example_circuit", circuit, <<>>)

-----------------------------------------------------------------------------
(* The simulation of a created circuit, driven by the control operations.  *)

Init == \E circuit \in Circuits : Created(circuit)

Next ==
    \/ StartSimulation
    \/ StopSimulation
    \/ PauseSimulation
    \/ ResumeSimulation
    \/ ResetSimulation
    \/ Update
    \/ BuildCircuitFromComponents
    \/ MainWindowStartSimulation

Spec == Init /\ [][Next]_vars

-----------------------------------------------------------------------------
(* Replay: a circuit is created, built and started; from then on it is    *)
(* ticked, paused, resumed and reset, so that simulation_time counts the   *)
(* effective ticks since the start or the last reset.                      *)

\* the state after create_*, build_circuit_from_components and start_simulation
Started(circuit) ==
    LET comps == CircuitComponents(circuit)
        ids == Range(comps)
        cto == ConnectAll(comps, [c \in ids |-> <<>>], CircuitConnections(circuit))
        built == build_circuit_from_components(comps, cto)
    IN  /\ components = comps
        /\ connected_to = cto
        /\ state = [c \in ids |-> InitState(c)]
        /\ ac_simulation_time = [c \in {x \in ids : ClassName(x) = "ACVoltageSource"} |-> 0]
        /\ nodes = built.nodes
        /\ ground_node = built.ground_node
        /\ simulation_time = 0
        /\ running = TRUE
        /\ paused = FALSE
        /\ update_count = 0
        /\ stats = [iterations |-> 0]
        /\ history = EmptyHistory(ids)
        /\ events = <<Event("SIMULATION_STARTED", [time |-> 0])>>
        /\ received = Delivered(<<Event("SIMULATION_STARTED", [time |-> 0])>>)
        /\ result = "None"
        /\ log = Logged("start_simulation", "Simulation started", <<>>)

InitReplay == \E circuit \in Circuits \ {"empty"} : Started(circuit)

NextReplay ==
    \/ Update
    \/ ResetSimulation
    \/ PauseSimulation
    \/ ResumeSimulation

SpecReplay == InitReplay /\ [][NextReplay]_vars

-----------------------------------------------------------------------------
(* Wired circuits: a client constructs component objects, adds some of     *)
(* them and makes connect_components_at calls; from then on components are *)
(* removed and the node map is built.                                      *)

\* components added before the first build
MaxComponents == 3
\* connect_components_at calls made before the first build
MaxCalls == 2

BuildIds == {"w_V", "w_A", "w_R", "w_G"}

\* the declared terminals of the objects in ids
Terminals(ids) == {e \in ids \X WireNames : e[2] \in connection_points(e[1])}

\* the orders in which at most n of the objects in ids are added
Orders(ids, n) ==
    {s \in UNION {[1..k -> ids] : k \in 0..n} : \A i, j \in DOMAIN s : i # j => s[i] # s[j]}

\* the sequences of at most n connect_components_at calls on declared terminals
ConnectCalls(ids, n) ==
    UNION {[1..k -> {<<a[1], a[2], b[1], b[2]>> : a \in Terminals(ids), b \in Terminals(ids)}] :
              k \in 0..n}

\* the simulator after the objects in ids are constructed, those of comps added in order
\* and the connect_components_at calls made (log holds no single call of the sequence)
Wired(ids, comps, calls) ==
    /\ components = comps
    /\ connected_to = ConnectAll(comps, [c \in ids |-> <<>>], calls)
    /\ state = [c \in ids |-> InitState(c)]
    /\ ac_simulation_time = [c \in {x \in ids : ClassName(x) = "ACVoltageSource"} |-> 0]
    /\ nodes = <<>>
    /\ ground_node = "None"
    /\ simulation_time = 0
    /\ running = FALSE
    /\ paused = FALSE
    /\ update_count = 0
    /\ stats = [iterations |-> 0]
    /\ history = EmptyHistory(ids)
    /\ events = <<>>
    /\ received = Delivered(<<>>)
    /\ result = "None"
    /\ log = Logged("wired", "", <<>>)

InitBuild ==
    \E comps \in Orders(BuildIds, MaxComponents), calls \in ConnectCalls(BuildIds, MaxCalls) :
        Wired(BuildIds, comps, calls)

NextBuild ==
    \/ \E c \in BuildIds : RemoveComponent(c)
    \/ BuildCircuitFromComponents

SpecBuild == InitBuild /\ [][NextBuild]_vars

-----------------------------------------------------------------------------
(* A live circuit: a DC source and a Ground are added, removed, wired to   *)
(* each other and unwired while the node map is built and the simulation   *)
(* is started and ticked.                                                  *)

\* the connections a client makes and removes: a terminal of the source to the Ground
LiveEndpoints == Terminals({"w_V"}) \X Terminals({"w_G"})

NextLive ==
    \/ \E c \in WireIds : AddComponent(c)
    \/ \E c \in WireIds : RemoveComponent(c)
    \/ \E e \in LiveEndpoints : ConnectComponentsAt(e[1][1], e[1][2], e[2][1], e[2][2])
    \/ \E e \in LiveEndpoints : DisconnectComponentsAt(e[1][1], e[1][2], e[2][1], e[2][2])
    \/ BuildCircuitFromComponents
    \/ StartSimulation
    \/ Update

SpecLive == InitWire /\ [][NextLive]_vars

-----------------------------------------------------------------------------
(* A long run: a started circuit is ticked past the length of the history. *)

\* ticks of the long run: two more than history_length
LongRun == 1002

\* circuits whose values stay within the machine integers over the long run
LongCircuits == {"voltage_divider", "led", "oscillator", "switch"}

InitLong == \E circuit \in LongCircuits : Started(circuit)

NextLong == update(<<>>, LongRun)

SpecLong == InitLong /\ [][NextLong]_vars

-----------------------------------------------------------------------------
(* The LED of max_current 0 across a DC source, driven by the control      *)
(* operations: solve_circuit raises in every tick.                         *)

InitZero == Created("led_zero")

SpecZero == InitZero /\ [][Next]_vars

-----------------------------------------------------------------------------
(* The stamp of a DC current source into the right-hand side of the nodal  *)
(* equations, on a wired and built circuit.                                *)

\* config.DEFAULT_CURRENT
DEFAULT_CURRENT == 10000000

\* `b[idx] += x`
AddTo(b, idx, x) == [b EXCEPT ![idx] = @ + x]

\* the second half of the stamp: the node of neg
StampNeg(b, neg_current_per_connection, node_neg, ground, node_indices) ==
    IF node_neg # ground /\ node_neg \in DOMAIN node_indices
    THEN AddTo(b, node_indices[node_neg], neg_current_per_connection)
    ELSE b

\* the first half of the stamp: the node of pos
StampPos(b, pos_current_per_connection, node_pos, ground, node_indices) ==
    IF node_pos # ground /\ node_pos \in DOMAIN node_indices
    THEN AddTo(b, node_indices[node_pos], -pos_current_per_connection)
    ELSE b

\* CircuitSolver._add_dc_current_source_to_mna: the matrices after the call
_add_dc_current_source_to_mna(current_source, ns, ground, node_indices, G, b) ==
    IF \/ get_node_for_component(ns, current_source, "pos") = "None"
       \/ get_node_for_component(ns, current_source, "neg") = "None"
    THEN [G |-> G, b |-> b]
    ELSE [G |-> G,
          b |-> StampNeg(StampPos(b, get_property(current_source, "current", DEFAULT_CURRENT),
                                  get_node_for_component(ns, current_source, "pos"),
                                  ground, node_indices),
                         -get_property(current_source, "current", DEFAULT_CURRENT),
                         get_node_for_component(ns, current_source, "neg"),
                         ground, node_indices)]

\* the indices a caller gives the nodes other than ground, in the order of the node map
NodeIndices(ns, ground) ==
    [id \in {ns[i].id : i \in DOMAIN ns} \ {ground} |->
        Cardinality({j \in DOMAIN ns : j <= NodeIndex(ns, id) /\ ns[j].id # ground})]

\* a conductance matrix and a right-hand side of zeros for n nodes
ZeroG(n) == [i \in 1..n |-> [j \in 1..n |-> 0]]

ZeroB(n) == [i \in 1..n |-> 0]

\* a caller stamps the current source c into matrices of zeros
AddDcCurrentSourceToMna(c) ==
    /\ InSeq(c, components)
    /\ ClassName(c) = "DCCurrentSource"
    /\ \E node_indices \in {NodeIndices(nodes, ground_node)} :
           result' = _add_dc_current_source_to_mna(c, nodes, ground_node, node_indices,
                                                   ZeroG(Cardinality(DOMAIN node_indices)),
                                                   ZeroB(Cardinality(DOMAIN node_indices)))
    /\ Notify(<<>>)
    /\ log' = Logged("_add_dc_current_source_to_mna", "", <<c>>)
    /\ UNCHANGED <<components, connected_to, nodes, ground_node>>
    /\ SimUnchanged

StampIds == {"w_I", "w_R", "w_G"}

InitStamp ==
    \E comps \in Orders(StampIds, MaxComponents), calls \in ConnectCalls(StampIds, MaxCalls) :
        Wired(StampIds, comps, calls)

NextStamp ==
    \/ BuildCircuitFromComponents
    \/ \E c \in StampIds : AddDcCurrentSourceToMna(c)

SpecStamp == InitStamp /\ [][NextStamp]_vars

-----------------------------------------------------------------------------
(* The junctions: circuits with LEDs and diodes, among them a bench whose  *)
(* sources put the junctions below, near and above their forward voltage.  *)

JunctionCircuits == {"junctions", "diode", "led", "switch", "led_zero"}

InitJunction == \E circuit \in JunctionCircuits : Created(circuit)

SpecJunction == InitJunction /\ [][Next]_vars

-----------------------------------------------------------------------------
(* The transistors: the BJT example and a bench with two sources that put  *)
(* one BJT into its active region and another into saturation.             *)

TransistorCircuits == {"bjt", "transistors"}

InitTransistor == \E circuit \in TransistorCircuits : Created(circuit)

SpecTransistor == InitTransistor /\ [][Next]_vars

-----------------------------------------------------------------------------
(* Claims about the lifecycle and the tick.                                *)

\* the step is a call of the operation op
Call(op) == log'.op = op

\* C1: in every state reachable by start, pause, resume, stop, reset and update calls
\* the paused flag is set only while the simulator is running.
C1_PausedOnlyWhileRunning == paused => running

\* the last call was a start_simulation that found the simulator stopped
JustStarted == log.op = "start_simulation" /\ log.msg = "Simulation started"

\* C2: start_simulation on a stopped simulator leaves it running, not paused, at time 0,
\* and the update that follows it on a circuit with components advances simulation time
\* by one time_step, whatever calls came before.
C2_StartFromStoppedRuns ==
    [][/\ (~running /\ Call("start_simulation"))
              => (running' /\ ~paused' /\ simulation_time' = 0)
       /\ (JustStarted /\ components # <<>> /\ Call("update"))
              => simulation_time' = simulation_time + time_step]_vars

\* C3: an update while the simulator is not running, is paused or has no components
\* changes neither simulation time, nor a component's state, nor a node, nor a history
\* series, publishes nothing and returns the statistics.
C3_SkippedUpdateChangesNothing ==
    [][(Call("update") /\ (~running \/ paused \/ components = <<>>))
          => /\ UNCHANGED <<simulation_time, state, ac_simulation_time, nodes, history>>
             /\ events' = <<>>
             /\ result' = stats]_vars

\* an update has just been skipped on a paused simulator that has ticked before
C3_Witness ==
    /\ log.op = "update"
    /\ events = <<>>
    /\ running /\ paused
    /\ components # <<>>
    /\ update_count > 0

\* C4: reset_simulation, in any state, sets simulation time to 0, empties every history
\* series and puts the state block of every component back to its initial values.
C4_ResetRestoresDefaults ==
    [][Call("reset_simulation")
          => /\ simulation_time' = 0
             /\ \A c \in DOMAIN history' : \A k \in DOMAIN history'[c] : history'[c][k] = <<>>
             /\ \A c \in Range(components) : state'[c] = InitState(c)]_vars

\* a reset has just been done on a paused simulator that has ticked, on a circuit whose
\* nodes carry a voltage
C4_Witness ==
    /\ log.op = "reset_simulation"
    /\ running /\ paused
    /\ update_count > 0
    /\ \E i \in DOMAIN nodes : nodes[i].voltage # 0

\* C5: reset_simulation leaves the simulator stopped, and an update that follows a reset
\* does not advance simulation time.
C5_ResetLeavesStopped ==
    [][/\ Call("reset_simulation") => ~running'
       /\ (log.op = "reset_simulation" /\ Call("update"))
              => simulation_time' = simulation_time]_vars

\* the circuit as build_circuit_from_components and the constructors leave it
Fresh ==
    [nodes |-> build_circuit_from_components(components, connected_to).nodes,
     state |-> [c \in DOMAIN state |-> InitState(c)],
     ac |-> [c \in DOMAIN ac_simulation_time |-> 0],
     history |-> EmptyHistory(DOMAIN history),
     simulation_time |-> 0]

\* n ticks from s (the test s # s is false; it has TLC evaluate s before the next tick
\* is computed from it)
RECURSIVE Ticks(_, _)
Ticks(s, n) == IF n = 0 \/ s # s THEN s ELSE Ticks(Tick(s, components, ground_node), n - 1)

\* C6: after a reset, the component states and the history samples of the ticks that
\* follow are those of the same number of ticks of the first run.
C6_ReplayAfterReset ==
    LET first_run == Ticks(Fresh, simulation_time)
    IN  state = first_run.state /\ history = first_run.history

-----------------------------------------------------------------------------
(* Claims about wiring.                                                    *)

\* the connection list of terminal e holds the pair p
Listed(e, p) == InSeq(p, Peers(connected_to[e[1]], e[2]))

\* no terminal lists itself
NoSelfEntry == \A c \in Objects : \A n \in connection_points(c) : ~Listed(<<c, n>>, <<c, n>>)

\* the arguments C7 is about: an unknown component id, a terminal name that is not
\* declared on its component, or two terminals that are already connected
RejectedArguments(e1, e2) ==
    \/ ~InSeq(e1[1], components) \/ ~InSeq(e2[1], components)
    \/ e1[2] \notin connection_points(e1[1]) \/ e2[2] \notin connection_points(e2[1])
    \/ Listed(e1, e2) \/ Listed(e2, e1)

C8_SelfConnectionRejected ==
    [][\A e \in Endpoints :
          ConnectComponentsAt(e[1], e[2], e[1], e[2]) =>
              (result' = "False" /\ connected_to' = connected_to)]_vars

\* connections are recorded on both components
Symmetric ==
    \A a, b \in Objects : \A na \in connection_points(a) : \A nb \in connection_points(b) :
        Listed(<<a, na>>, <<b, nb>>) <=> Listed(<<b, nb>>, <<a, na>>)

\* the list of terminal e after the pairing e1 - e2 is taken out and nothing else
Without(e, e1, e2) ==
    SelectSeq(Peers(connected_to[e[1]], e[2]),
              LAMBDA p : ~(e = e1 /\ p = e2) /\ ~(e = e2 /\ p = e1))

C10_RemoveSeversConnections ==
    (log.op = "remove_component" /\ result = "True") =>
        \A c \in Range(components) : \A n \in connection_points(c) :
            \A p \in Range(Peers(connected_to[c], n)) : p[1] # log.args[1]

-----------------------------------------------------------------------------
(* Claims about the node map.                                              *)

\* the declared terminals of the components in the simulator
DeclaredTerminals == Terminals(Range(components))

\* an explicit connection between two terminals of components in the simulator
Connected(t, u) ==
    /\ t \in DeclaredTerminals
    /\ u \in DeclaredTerminals
    /\ (InSeq(u, Peers(connected_to[t[1]], t[2])) \/ InSeq(t, Peers(connected_to[u[1]], u[2])))

\* the terminals a chain of explicit connections leads to
RECURSIVE Chain(_, _)
Grow(seen, found) == Chain(seen \cup found, found)

Chain(seen, frontier) ==
    IF frontier = {} THEN seen
    ELSE Grow(seen, {u \in DeclaredTerminals \ seen : \E t \in frontier : Connected(t, u)})

Linked(t, u) == u \in Chain({t}, {t})

\* the nodes of the node map ns that hold terminal t
NodesOf(ns, t) == {i \in DOMAIN ns : InSeq(t, ns[i].members)}

\* the node map ns partitions the declared terminals by the chains of connections
Partitions(ns) ==
    /\ \A i \in DOMAIN ns : Range(ns[i].members) \subseteq DeclaredTerminals
    /\ \A t \in DeclaredTerminals : Cardinality(NodesOf(ns, t)) = 1
    /\ \A t, u \in DeclaredTerminals : (NodesOf(ns, t) = NodesOf(ns, u)) <=> Linked(t, u)

Built == log.op = "build_circuit_from_components"

\* C11: after build_circuit_from_components every declared terminal of a component in
\* the simulator is a member of exactly one node, and two terminals share a node exactly
\* when a chain of explicit connections among components in the simulator links them.
C11_NodesPartitionTerminals == Built => Partitions(nodes)


\* the components of the simulator of one of the classes, in component order
OfClass(classes) == SelectSeq(components, LAMBDA c : ClassName(c) \in classes)

\* the terminals of the node chosen as ground
GroundMembers ==
    IF HasNode(nodes, ground_node) THEN Range(nodes[NodeIndex(nodes, ground_node)].members)
    ELSE {}

GroundByPriority(grounds, sources) ==
    IF grounds # <<>> THEN \E g \in Range(grounds) : <<g, "gnd">> \in GroundMembers
    ELSE IF sources # <<>> THEN <<Head(sources), "neg">> \in GroundMembers
    ELSE IF components # <<>> THEN ground_node # "default_ground" /\ GroundMembers # {}
    ELSE ground_node = "default_ground" /\ GroundMembers = {} /\ Len(nodes) = 1

\* C12: after build_circuit_from_components the ground node is a node of the node map:
\* the node of a Ground component's gnd terminal if the simulator holds a Ground
\* component; otherwise the node of the neg terminal of the first DC or AC voltage source
\* in component order; otherwise a node that holds terminals; and for a simulator without
\* components the new, empty node "default_ground".
C12_GroundByPriority ==
    Built => /\ ground_node # "None"
             /\ HasNode(nodes, ground_node)
             /\ GroundByPriority(OfClass({"Ground"}), OfClass({"DCVoltageSource", "ACVoltageSource"}))

\* two voltage sources and no Ground component: the neg node of the first is ground, the
\* neg node of the second is not
C12_Witness ==
    /\ Built
    /\ OfClass({"Ground"}) = <<>>
    /\ Len(OfClass({"DCVoltageSource", "ACVoltageSource"})) = 2
    /\ <<OfClass({"DCVoltageSource", "ACVoltageSource"})[1], "neg">> \in GroundMembers
    /\ <<OfClass({"DCVoltageSource", "ACVoltageSource"})[2], "neg">> \notin GroundMembers


\* update ran a tick
Ticked == log.op = "update" /\ events # <<>>

\* the nodes of the node map designated as ground
GroundNodes == {i \in DOMAIN nodes : nodes[i].id = ground_node}

\* C13: after build_circuit_from_components and after every tick that follows a build,
\* exactly one node of the node map is the ground node and its voltage is 0.
C13_GroundPinnedAtZero ==
    (Built \/ (Ticked /\ ground_node # "None")) =>
        /\ Cardinality(GroundNodes) = 1
        /\ \A i \in GroundNodes : nodes[i].voltage = 0


\* the groups of a node map: each node id with the terminals of the node
Groups(ns) == {<<ns[i].id, Range(ns[i].members)>> : i \in DOMAIN ns}

\* a build gives the node map and the ground node the simulator holds
SameAs(built) == Groups(built.nodes) = Groups(nodes) /\ built.ground_node = ground_node

C15_TickReadsCurrentPartition ==
    [][(Call("update") /\ events' # <<>> /\ ground_node # "None") => Partitions(nodes)]_vars


-----------------------------------------------------------------------------
(* Claims about the tick.                                                  *)

\* the series of samples: (component id, state key)
Series == UNION {{c} \X DOMAIN history[c] : c \in DOMAIN history}

\* a tick appended to a full series: the oldest sample is gone, the others keep their order
EvictsOldest(old, new) ==
    /\ Len(new) = history_length
    /\ SubSeq(new, 1, history_length - 1) = Tail(old)

\* C16: every series of the history holds at most history_length samples, and a tick that
\* appends to a series of history_length samples removes its first sample and keeps the
\* others in order.
C16_HistoryBounded ==
    [][\A e \in Series :
          /\ Len(history[e[1]][e[2]]) <= history_length
          /\ Len(history'[e[1]][e[2]]) <= history_length
          /\ (Call("update") /\ events' # <<>> /\ Len(history[e[1]][e[2]]) = history_length)
                 => EvictsOldest(history[e[1]][e[2]], history'[e[1]][e[2]])]_vars

\* a full series whose first sample is no longer the sample of the first tick
C16_Witness ==
    /\ Ticked
    /\ \E e \in Series : /\ Len(history[e[1]][e[2]]) = history_length
                        /\ history[e[1]][e[2]][1][1] > 0


\* solve_circuit raises in the tick that update is about to run
SolveFails == solve_circuit(components, nodes, ground_node, state).raised # "None"

\* C17: when solve_circuit fails inside a tick, update still returns the statistics to
\* its caller, simulation_time advances by one time_step and the notification of the
\* completed tick is published.
C17_SolveFailureIsCaught ==
    [][(Call("update") /\ ~TickSkipped(running, paused, components) /\ SolveFails)
           => /\ "exception" \notin DOMAIN result'
              /\ simulation_time' = simulation_time + time_step
              /\ events' # <<>>]_vars


\* C18: a tick run by update(elapsed_time) advances simulation_time by elapsed_time.
C18_ElapsedTimeIsTheStep ==
    [][(Call("update") /\ ~TickSkipped(running, paused, components) /\ log'.args # <<>>)
           => simulation_time' = simulation_time + log'.args[1]]_vars


\* the voltage divider after a tick on the node map of its connections
DividerTicked ==
    /\ components = CircuitComponents("voltage_divider")
    /\ Ticked
    /\ Partitions(nodes)

\* the voltages of the nodes that hold the terminal
VoltagesAt(c, name) == {nodes[i].voltage : i \in NodesOf(nodes, <<c, name>>)}

\* C19: in the voltage divider (10 V across two resistors of 1 kOhm) the node between the
\* resistors is at 5 V and the ground node at 0 V after a tick.
C19_DividerMidpoint ==
    DividerTicked => /\ VoltagesAt("dv_R1", "p2") = {5000}
                     /\ VoltagesAt("dv_R2", "p1") = {5000}
                     /\ \A i \in GroundNodes : nodes[i].voltage = 0

\* the nodes without a terminal of a voltage source
SourceFree ==
    {i \in DOMAIN nodes :
        \A e \in Range(nodes[i].members) :
            ClassName(e[1]) \notin {"DCVoltageSource", "ACVoltageSource"}}

\* C20: in the voltage divider, after a tick, the signed terminal currents sum to zero at
\* every node that holds no terminal of a voltage source.
C20_CurrentsSumToZero ==
    DividerTicked => \A i \in SourceFree :
                         /\ nodes[i].current_sum = 0
                         /\ calculate_current_sum(state, nodes[i].members) = 0


-----------------------------------------------------------------------------
(* Claims about the solve step, the components and the notifications.      *)

\* the voltage of a source in a tick that leaves the state blocks st
SourceVoltage(c, st) ==
    IF ClassName(c) = "DCVoltageSource" THEN get_property(c, "voltage", DEFAULT_VOLTAGE)
    ELSE st[c]["instantaneous_voltage"]

\* the source has a node for each of its terminals
OnNodes(ns, c) ==
    get_node_for_component(ns, c, "pos") # "None" /\ get_node_for_component(ns, c, "neg") # "None"

\* between the nodes of the terminals of every source lies the voltage of the source
SourcesImposed(ns, st) ==
    \A c \in Range(OfClass({"DCVoltageSource", "ACVoltageSource"})) :
        OnNodes(ns, c) =>
            TerminalVoltage(ns, c, "pos") - TerminalVoltage(ns, c, "neg") = SourceVoltage(c, st)

\* C21: after the solve step of a tick, the voltage of the node of the pos terminal of
\* every DC or AC voltage source minus that of the node of its neg terminal is the
\* voltage of the source in that tick.
C21_SourcesImposeVoltage ==
    [][(Call("update") /\ events' # <<>>)
           => SourcesImposed(solve_circuit(components, nodes, ground_node, state).nodes, state')]_vars


\* the call changed the lifecycle state
LifecycleChanged == running' # running \/ paused' # paused

\* the call published exactly one event, of this type
Published(type) == Len(events') = 1 /\ events'[1].type = type

\* the types of the events published by the control call of the step (MainWindow builds
\* the circuit before it starts the simulation: that event is the build's)
ControlEvents ==
    [i \in DOMAIN SelectSeq(events', LAMBDA e : e.type # "CIRCUIT_BUILT") |->
        SelectSeq(events', LAMBDA e : e.type # "CIRCUIT_BUILT")[i].type]

\* one event of the type when the lifecycle state changed, none when it did not
Announces(type) == ControlEvents = IF LifecycleChanged THEN <<type>> ELSE <<>>

\* C22: start_simulation, pause_simulation, resume_simulation and stop_simulation publish
\* exactly one event of their type when they change the lifecycle state and none when
\* they change nothing; reset_simulation always publishes one reset event; and
\* build_circuit_from_components publishes one event with the number of nodes, the
\* number of components and the id of the ground node.  Every listener is called with
\* every event published.
C22_EventsMatchTransitions ==
    [][/\ Call("start_simulation") => Announces("SIMULATION_STARTED")
       /\ Call("pause_simulation") => Announces("SIMULATION_PAUSED")
       /\ Call("resume_simulation") => Announces("SIMULATION_RESUMED")
       /\ Call("stop_simulation") => Announces("SIMULATION_STOPPED")
       /\ Call("reset_simulation") => Published("SIMULATION_RESET")
       /\ Call("build_circuit_from_components")
              => /\ Published("CIRCUIT_BUILT")
                 /\ events'[1].data = [nodes |-> Len(nodes'), components |-> Len(components'),
                                       ground_node |-> ground_node']
       /\ \A l \in Range(event_listeners) : received'[l] = events']_vars

\* a running simulator has just been stopped and the event published
C22_Witness ==
    /\ log.op = "stop_simulation"
    /\ ~running
    /\ Len(events) = 1
    /\ events[1].type = "SIMULATION_STOPPED"


\* a call of calculate that returned r left the node map and the clocks of the AC sources
\* as they were
LeavesSimulator(r) == r.nodes = nodes /\ r.ac = ac_simulation_time

\* C23: a call of calculate on a component of a running simulator changes neither the
\* node voltages nor an attribute of the component.
C23_CalculateIsPure ==
    (running /\ ~paused) =>
        \A c \in Range(components) :
            LeavesSimulator(calculate(c, nodes, state, ac_simulation_time))


\* update runs a tick: the simulator is running, not paused and has a component
Effective == Call("update") /\ ~TickSkipped(running, paused, components)

\* the last sample of every series of the components is the value the component's state
\* holds after the tick, stamped with the simulation time before the advance
StampedBeforeAdvance ==
    \A c \in Range(components) : \A k \in DOMAIN history'[c] :
        /\ history'[c][k] # <<>>
        /\ history'[c][k][Len(history'[c][k])] = <<simulation_time, state'[c][k]>>

\* one notification of the completed tick, carrying the advanced simulation time
NotifiedAfterAdvance ==
    /\ events' = <<Event("SIMULATION_UPDATED", stats')>>
    /\ stats'.simulation_time = simulation_time'

\* C24: an effective tick appends to the history of every component a sample stamped with
\* the simulation time before the advance, then advances simulation_time by one
\* time_step and last publishes one notification that carries the advanced time; so
\* after n effective ticks since the start, simulation_time is n time_steps.
C24_TickOrder ==
    [][Effective => /\ StampedBeforeAdvance
                    /\ simulation_time' = simulation_time + time_step
                    /\ NotifiedAfterAdvance
                    /\ simulation_time' = update_count' * time_step]_vars


\* the current source whose stamp is in result
Stamped == log.args[1]

\* the sum of the entries of a right-hand side
RECURSIVE SumOf(_)
SumOf(b) == IF b = <<>> THEN 0 ELSE Head(b) + SumOf(Tail(b))

\* the entry of the node of a terminal of the stamped source
EntryOf(name) ==
    result.b[NodeIndices(nodes, ground_node)[get_node_for_component(nodes, Stamped, name)]]

\* the stamped source lies between two nodes other than ground
BetweenNonGround ==
    /\ log.op = "_add_dc_current_source_to_mna"
    /\ OnNodes(nodes, Stamped)
    /\ get_node_for_component(nodes, Stamped, "pos") # ground_node
    /\ get_node_for_component(nodes, Stamped, "neg") # ground_node
    /\ get_node_for_component(nodes, Stamped, "pos") # get_node_for_component(nodes, Stamped, "neg")

\* C25: the stamp of a DC current source of value I between two nodes other than ground
\* adds I at one of the two nodes and -I at the other, so that its contributions to b
\* sum to zero, and leaves G as it was.
C25_CurrentStampBalanced ==
    BetweenNonGround =>
        /\ EntryOf("pos") = -EntryOf("neg")
        /\ Abs(EntryOf("pos")) = get_property(Stamped, "current", DEFAULT_CURRENT)
        /\ SumOf(result.b) = 0
        /\ result.G = ZeroG(Len(result.b))


\* the LEDs of the circuit
LEDs == {c \in Range(components) : ClassName(c) = "LED"}

\* state['brightness'] of an LED, per mille
Brightness(c) == state[c]["brightness"]

\* the forward current of an LED: state['currents']['anode']
ForwardCurrent(c) == state[c]["currents.anode"]

\* the max_current its brightness is taken against
MaxCurrent(c) == get_property(c, "max_current", 20000000)

\* the brightness is the share of max_current the forward current has reached, at most 1
CappedShare(c) ==
    IF ForwardCurrent(c) >= MaxCurrent(c) THEN Brightness(c) = 1000
    ELSE /\ Brightness(c) * (MaxCurrent(c) \div 1000) <= (ForwardCurrent(c) \div 1000) * 1000
         /\ (ForwardCurrent(c) \div 1000) * 1000 < (Brightness(c) + 1) * (MaxCurrent(c) \div 1000)

\* C26: the brightness of every LED lies in [0, 1], is 0 whenever the LED does not
\* conduct, is current / max_current capped at 1 for a positive forward current, and of
\* two LEDs with the same max_current the one with the larger forward current is at
\* least as bright.
C26_BrightnessBounded ==
    \A c \in LEDs :
        /\ Brightness(c) \in 0..1000
        /\ ~state[c]["conducting"] => Brightness(c) = 0
        /\ ForwardCurrent(c) > 0 /\ MaxCurrent(c) > 0 => CappedShare(c)
        /\ \A d \in LEDs :
               MaxCurrent(d) = MaxCurrent(c) /\ ForwardCurrent(c) <= ForwardCurrent(d)
                   => Brightness(c) <= Brightness(d)

\* after a tick of the bench one LED conducts against the flow and is dark, one is lit
\* at half and one at full brightness
C26_Witness ==
    /\ log.op = "update"
    /\ \E c \in LEDs : state[c]["conducting"] /\ ForwardCurrent(c) < 0 /\ Brightness(c) = 0
    /\ \E c \in LEDs : Brightness(c) = 500
    /\ \E c \in LEDs : Brightness(c) = 1000


\* a listener that raises was called during the step
ListenerRaised == \E l \in Range(event_listeners) : ListenerRaises(l) /\ received'[l] # <<>>

\* the listeners registered after one that raises
AfterRaising ==
    {l \in Range(event_listeners) :
        \E l0 \in CalledBefore(event_listeners, l) : ListenerRaises(l0)}

\* the operation returned to its caller what it returns when no listener raises, and its
\* state change is in place
CompletedNormally ==
    /\ Call("update") => /\ result' = stats'
                         /\ simulation_time' = simulation_time + time_step
                         /\ update_count' = update_count + 1
    /\ Call("start_simulation") => result' = "None" /\ running'
    /\ Call("stop_simulation") => result' = "None" /\ ~running'
    /\ Call("pause_simulation") => result' = "None" /\ paused'
    /\ Call("resume_simulation") => result' = "None" /\ ~paused'
    /\ Call("reset_simulation") => result' = "None" /\ simulation_time' = 0
    /\ Call("build_circuit_from_components") => result' = Len(nodes')

\* C27: when a listener raises, every other listener, the ones registered after it
\* included, is still called with every event of the operation, the operation returns
\* normally to its caller and its state change, the advance of the time included, stays.
C27_RaisingListenerContained ==
    [][ListenerRaised => /\ \A l \in Range(event_listeners) \ {"raising_listener"} :
                               received'[l] = events'
                         /\ AfterRaising # {}
                         /\ CompletedNormally]_vars

\* a tick has completed and the listener registered after the raising one holds its event
C27_Witness ==
    /\ log.op = "update"
    /\ simulation_time > 0
    /\ received["raising_listener"] # <<>>
    /\ \E l \in AfterRaising : received[l] = events /\ events[1].type = "SIMULATION_UPDATED"


\* the timestamps of a series, oldest first
Timestamps(series) == [i \in DOMAIN series |-> series[i][1]]

\* every element is larger than the one before it
StrictlyIncreasing(seq) == \A i \in DOMAIN seq : i > 1 => seq[i - 1] < seq[i]

\* C28: in every state reached by start, pause, resume, stop, reset and update the
\* timestamps of every history series are strictly increasing.
C28_TimestampsIncrease ==
    \A c \in DOMAIN history : \A k \in DOMAIN history[c] :
        StrictlyIncreasing(Timestamps(history[c][k]))


\* the signed currents a component's state holds for its terminals
TerminalCurrents(c) ==
    [i \in DOMAIN connections(c) |->
        IF ("currents." \o connections(c)[i]) \in DOMAIN state[c]
        THEN state[c]["currents." \o connections(c)[i]]
        ELSE 0]

\* C29: after every tick the signed terminal currents in the state of every component
\* sum to zero over its terminals, for a BJT in cutoff, in its active region and in
\* saturation as for every other kind of component.
C29_TerminalCurrentsBalance ==
    Ticked => \A c \in Range(components) : SumOf(TerminalCurrents(c)) = 0


\* the diodes and LEDs of the circuit
Junctions == {c \in Range(components) : ClassName(c) \in {"Diode", "LED"}}

\* C30: whenever a Diode or an LED conducts after a tick, the current into its anode is
\* not negative and the current into its cathode is the negation of it.
C30_ConductingForward ==
    Ticked => \A c \in Junctions :
                  state[c]["conducting"] => /\ state[c]["currents.anode"] >= 0
                                            /\ state[c]["currents.cathode"]
                                                   = -state[c]["currents.anode"]

====
